---- MODULE Spec2Model ----
(***************************************************************************)
(* Model of the marketing-intelligence dashboard:                          *)
(*   src/src/data/processor.py  (DataProcessor)                            *)
(*   src/src/visualization/dashboard_components.py (charts)                *)
(*   src/app.py  (memoized load, tabs, insights)                           *)
(*   src/src/ai/llm.py, src/src/ai/ai_insights.py  (chat)                  *)
(*                                                                         *)
(* A cell of a table is a float or a date.  Floats are modelled exactly:   *)
(* a finite float is a rational n/d in lowest terms, and NaN, +inf, -inf   *)
(* are kept apart, because pandas' fillna(0) replaces NaN only.            *)
(* A table (DataFrame) is [columns |-> set of names, rows |-> sequence of  *)
(* functions from column name to cell].                                    *)
(***************************************************************************)
EXTENDS Integers, Sequences, FiniteSets, TLC

VARIABLES
    business_df, marketing_dfs, combined_df, \* the fields of a DataProcessor
    pc,                  \* how far the processor's pipeline has come
    ret,                 \* the last call and what it returned or raised
    cache,               \* the st.cache_data entry of load_and_process_data
    pipeline_runs,       \* how often the body of load_and_process_data ran
    st_error,            \* the st.error message load_and_process_data shows
    filtered_df,         \* main's filtered_df, the table handed to the tabs
    sidebar_platforms,   \* the sidebar's platform selection
    messages,            \* st.session_state.messages
    llm_service,         \* the service get_llm_service returned
    gemini_calls         \* generate_content calls made so far

\* the state of the Streamlit application around the processor
appVars == <<cache, pipeline_runs, st_error, filtered_df, sidebar_platforms,
             messages, llm_service, gemini_calls>>

vars == <<business_df, marketing_dfs, combined_df, pc, ret, cache, pipeline_runs,
          st_error, filtered_df, sidebar_platforms, messages, llm_service,
          gemini_calls>>

None == [k |-> "None"]

(***************************************************************************)
(* Bounds of the model.                                                    *)
(***************************************************************************)
\* largest cell value of the rows the KPI calculators are applied to (SpecKpi)
MaxVal == 3
\* most rows of the three platform CSVs together
MaxMktRows == 2
\* most runs of the body of load_and_process_data that are followed
MaxRuns == 2

(***************************************************************************)
(* Floats.                                                                 *)
(***************************************************************************)
Abs(i) == IF i < 0 THEN -i ELSE i

RECURSIVE GCD(_, _)
GCD(a, b) == IF b = 0 THEN a ELSE GCD(b, a % b)

NaN == [k |-> "nan", n |-> 0, d |-> 1]
Inf == [k |-> "inf", n |-> 1, d |-> 1]
NegInf == [k |-> "inf", n |-> -1, d |-> 1]

\* the finite float n/d (d # 0), in lowest terms with a positive denominator
Fin(n, d) ==
    LET s == IF d < 0 THEN -1 ELSE 1
        g == GCD(Abs(n), Abs(d))
    IN  [k |-> "fin", n |-> (s * n) \div g, d |-> (s * d) \div g]

Num(i) == [k |-> "fin", n |-> i, d |-> 1]

IsFinite(x) == x.k = "fin"
IsNaN(x) == x.k = "nan"
IsInf(x) == x.k = "inf"

Sign(x) == IF x.n > 0 THEN 1 ELSE IF x.n < 0 THEN -1 ELSE 0

InfOfSign(s) == IF s > 0 THEN Inf ELSE NegInf

\* IEEE-754 division as numpy performs it on a float column (no exception:
\* x/0 is +-inf, 0/0 is NaN)
Div(a, b) ==
    IF IsNaN(a) \/ IsNaN(b) THEN NaN
    ELSE IF IsFinite(a) /\ IsFinite(b)
         THEN IF b.n = 0
              THEN IF a.n = 0 THEN NaN ELSE InfOfSign(Sign(a))
              ELSE Fin(a.n * b.d, a.d * b.n)
    ELSE IF IsInf(a) /\ IsFinite(b)
         THEN InfOfSign(IF b.n < 0 THEN -Sign(a) ELSE Sign(a))
    ELSE IF IsFinite(a) /\ IsInf(b) THEN Num(0)
    ELSE NaN

Mul(a, b) ==
    IF IsNaN(a) \/ IsNaN(b) THEN NaN
    ELSE IF IsFinite(a) /\ IsFinite(b) THEN Fin(a.n * b.n, a.d * b.d)
    ELSE IF Sign(a) * Sign(b) = 0 THEN NaN
    ELSE InfOfSign(Sign(a) * Sign(b))

Add(a, b) ==
    IF IsNaN(a) \/ IsNaN(b) THEN NaN
    ELSE IF IsFinite(a) /\ IsFinite(b) THEN Fin(a.n * b.d + b.n * a.d, a.d * b.d)
    ELSE IF IsInf(a) /\ IsInf(b) THEN (IF a = b THEN a ELSE NaN)
    ELSE IF IsInf(a) THEN a
    ELSE b

Neg(a) == IF IsNaN(a) THEN NaN ELSE [a EXCEPT !.n = -a.n]

Sub(a, b) == Add(a, Neg(b))

\* a > 0 as a float comparison (False for NaN)
GtZero(a) == ~IsNaN(a) /\ a.n > 0

\* p/q (q > 0) rounded to the nearest integer, ties to the even one
RoundHalfEven(p, q) ==
    LET f == p \div q
        r == p % q
    IN  IF 2 * r < q THEN f
        ELSE IF 2 * r > q THEN f + 1
        ELSE IF f % 2 = 0 THEN f ELSE f + 1

\* Series.round(2): NaN and +-inf are left as they are
Round2(x) == IF IsFinite(x) THEN Fin(RoundHalfEven(x.n * 100, x.d), 100) ELSE x

\* Series.fillna(0) on one cell: NaN only, inf is not "na"
FillNa(x) == IF IsNaN(x) THEN Num(0) ELSE x

(***************************************************************************)
(* Program constants (processor.py:11-19).                                 *)
(***************************************************************************)
PLATFORMS == <<"Facebook", "Google", "TikTok">>
MARKETING_COLUMNS == <<"impression", "clicks", "spend", "attributed revenue">>
BUSINESS_COLUMNS == <<"# of orders", "new customers", "total revenue", "gross profit">>

Range(s) == {s[i] : i \in DOMAIN s}

MarketingKpiNames == {"ctr", "cpc", "cpm", "roas"}
BusinessKpiNames == {"aov", "profit_margin", "new_customer_rate"}

(***************************************************************************)
(* Tables.                                                                 *)
(***************************************************************************)
\* a date cell: text as read from the CSV, or a timestamp once parsed
DateText(day) == [k |-> "text", day |-> day]
Timestamp(day) == [k |-> "ts", day |-> day]

DataFrame(cols, rows) == [k |-> "df", columns |-> cols, rows |-> rows]

Raised(e) == [k |-> "raised", error |-> e]

IsDf(x) == x.k = "df"

\* the cells of column c, in row order
Column(df, c) == [i \in DOMAIN df.rows |-> df.rows[i][c]]

RECURSIVE SumFrom(_, _)
\* Series.sum(): NaN cells are skipped, the empty sum is 0
SumFrom(s, i) ==
    IF i > Len(s) THEN Num(0)
    ELSE IF IsNaN(s[i]) THEN SumFrom(s, i + 1)
    ELSE Add(s[i], SumFrom(s, i + 1))

SeriesSum(s) == SumFrom(s, 1)

\* Series.mean(): NaN cells are skipped, the mean of nothing is NaN
SeriesMean(s) ==
    LET kept == SelectSeq(s, LAMBDA x : ~IsNaN(x))
    IN  IF Len(kept) = 0 THEN NaN ELSE Div(SumFrom(kept, 1), Num(Len(kept)))

RECURSIVE ConcatAll(_, _)
ConcatAll(seqs, i) == IF i > Len(seqs) THEN <<>> ELSE seqs[i] \o ConcatAll(seqs, i + 1)

RECURSIVE SortedDays(_)
\* the elements of a finite set of integers in increasing order
SortedDays(S) ==
    IF S = {} THEN <<>>
    ELSE LET m == CHOOSE x \in S : \A y \in S : x <= y
         IN  <<m>> \o SortedDays(S \ {m})

(***************************************************************************)
(* KPI calculator (processor.py:70-115).                                   *)
(***************************************************************************)
\* PlatformKpiRatios with the ctr left as a fraction (the * 100 forgotten)
PlatformKpiRatios_CtrFraction(r) ==
    [ctr  |-> Div(r["clicks"], r["impression"]),
     cpc  |-> Div(r["spend"], r["clicks"]),
     cpm  |-> Div(r["spend"], Div(r["impression"], Num(1000))),
     roas |-> Div(r["attributed revenue"], r["spend"])]

\* the four ratios of one marketing row, before fillna and round
PlatformKpiRatios(r) ==
    [ctr  |-> Mul(Div(r["clicks"], r["impression"]), Num(100)),
     cpc  |-> Div(r["spend"], r["clicks"]),
     cpm  |-> Div(r["spend"], Div(r["impression"], Num(1000))),
     roas |-> Div(r["attributed revenue"], r["spend"])]

\* df_clean[kpi] = values.fillna(0).round(2)
PlatformKpiCell(v) == Round2(FillNa(v))

\* a table without one of the marketing columns: df_clean[col] raises KeyError
calculate_platform_kpis(df) ==
    IF ~(Range(MARKETING_COLUMNS) \subseteq df.columns) THEN Raised("KeyError")
    ELSE DataFrame(df.columns \cup MarketingKpiNames,
                   [i \in DOMAIN df.rows |->
                       LET kpis == PlatformKpiRatios(df.rows[i])
                       IN  [c \in MarketingKpiNames |-> PlatformKpiCell(kpis[c])] @@ df.rows[i]])

\* pd.concat of the per-platform tables, in the insertion order of
\* marketing_dfs (the order of PLATFORMS); pd.concat([]) raises ValueError
calculate_marketing_kpis(mdfs) ==
    LET present == SelectSeq(PLATFORMS, LAMBDA p : p \in DOMAIN mdfs)
        parts   == [i \in DOMAIN present |-> calculate_platform_kpis(mdfs[present[i]])]
    IN  IF \E i \in DOMAIN present :
              ~(Range(MARKETING_COLUMNS) \subseteq mdfs[present[i]].columns)
        THEN Raised("KeyError")
        ELSE IF Len(present) = 0 THEN Raised("ValueError")
        ELSE DataFrame(UNION {parts[i].columns : i \in DOMAIN parts},
                       ConcatAll([i \in DOMAIN parts |-> parts[i].rows], 1))

\* the three ratios of one business row: round(2) first, fillna(0) after
BusinessKpiRatios(r) ==
    [aov               |-> Round2(Div(r["total revenue"], r["# of orders"])),
     profit_margin     |-> Round2(Mul(Div(r["gross profit"], r["total revenue"]), Num(100))),
     new_customer_rate |-> Round2(Mul(Div(r["new customers"], r["# of orders"]), Num(100)))]

BusinessKpiCell(v) == FillNa(v)

calculate_business_kpis(bdf) ==
    IF bdf = None THEN None
    ELSE DataFrame(bdf.columns \cup BusinessKpiNames,
                   [i \in DOMAIN bdf.rows |->
                       LET kpis == BusinessKpiRatios(bdf.rows[i])
                       IN  [c \in BusinessKpiNames |-> BusinessKpiCell(kpis[c])] @@ bdf.rows[i]])

(***************************************************************************)
(* Combiner (processor.py:117-149).                                        *)
(***************************************************************************)
SumColumns == {"impression", "clicks", "spend", "attributed revenue"}
MeanColumns == {"ctr", "cpc", "cpm", "roas"}

\* the date cells of a table, in increasing order
SortedDates(rows) ==
    LET cells == {rows[i]["date"] : i \in DOMAIN rows}
        days  == SortedDays({c.day : c \in cells})
    IN  [i \in DOMAIN days |-> CHOOSE c \in cells : c.day = days[i]]

\* the rows of one (date, platform) group
GroupRows(rows, date, platform) ==
    SelectSeq(rows, LAMBDA r : r["date"] = date /\ r["platform"] = platform)

\* one aggregated record of marketing_df.groupby(['date', 'platform']).agg(...)
AggregateGroup(group, date, platform) ==
    [c \in SumColumns |-> SeriesSum([i \in DOMAIN group |-> group[i][c]])]
    @@ [c \in MeanColumns |-> SeriesMean([i \in DOMAIN group |-> group[i][c]])]
    @@ [date |-> date, platform |-> platform]

\* groupby(['date', 'platform']).agg({...}).reset_index(): one row for each
\* (date, platform) that has at least one row, sorted by date, then platform
GroupByDatePlatform(mdf) ==
    LET dates == SortedDates(mdf.rows)
        perDate(d) ==
            LET ps == SelectSeq(PLATFORMS, LAMBDA p : Len(GroupRows(mdf.rows, d, p)) > 0)
            IN  [j \in DOMAIN ps |-> AggregateGroup(GroupRows(mdf.rows, d, ps[j]), d, ps[j])]
    IN  DataFrame({"date", "platform"} \cup SumColumns \cup MeanColumns,
                  ConcatAll([i \in DOMAIN dates |-> perDate(dates[i])], 1))

\* f"{col[1]}_{col[0]}"
PivotColumnName(platform, metric) == platform \o "_" \o metric

\* the <<platform, metric>> a pivot column name stands for
PivotKey ==
    LET keys == Range(PLATFORMS) \X (SumColumns \cup MeanColumns)
    IN  [c \in {PivotColumnName(k[1], k[2]) : k \in keys} |->
            CHOOSE k \in keys : PivotColumnName(k[1], k[2]) = c]

\* set_index('date').pivot(columns='platform'), the renaming of the columns
\* and reset_index(): one row per date; a platform contributes columns only
\* when it has a row; a (date, platform) without a row is NaN; two rows for
\* one (date, platform) make pivot raise ValueError
Pivot(daily) ==
    LET dates   == SortedDates(daily.rows)
        plats   == {daily.rows[i]["platform"] : i \in DOMAIN daily.rows}
        metrics == daily.columns \ {"date", "platform"}
        names   == {PivotColumnName(pm[1], pm[2]) : pm \in plats \X metrics}
        row(d) ==
            [c \in names |->
                LET g == GroupRows(daily.rows, d, PivotKey[c][1])
                IN  IF Len(g) = 0 THEN NaN ELSE g[1][PivotKey[c][2]]]
            @@ [date |-> d]
    IN  IF \E i \in DOMAIN daily.rows :
              Len(GroupRows(daily.rows, daily.rows[i]["date"], daily.rows[i]["platform"])) > 1
        THEN Raised("ValueError")
        ELSE DataFrame({"date"} \cup names,
                       [i \in DOMAIN dates |-> row(dates[i])])

\* MergeLeftOnDate as an inner join (how='left' forgotten: pd.merge's default)
MergeInnerOnDate(left, right) ==
    LET extra == right.columns \ left.columns
        joined(l) ==
            LET ms == SelectSeq(right.rows, LAMBDA r : r["date"] = l["date"])
            IN  [j \in DOMAIN ms |-> l @@ [c \in extra |-> ms[j][c]]]
    IN  DataFrame(left.columns \cup right.columns,
                  ConcatAll([i \in DOMAIN left.rows |-> joined(left.rows[i])], 1))

\* pd.merge(left, right, on='date', how='left'): every left row, in order,
\* once per right row of the same date, or once with NaN when there is none
MergeLeftOnDate(left, right) ==
    LET extra == right.columns \ left.columns
        joined(l) ==
            LET ms == SelectSeq(right.rows, LAMBDA r : r["date"] = l["date"])
            IN  IF Len(ms) = 0 THEN <<l @@ [c \in extra |-> NaN]>>
                ELSE [j \in DOMAIN ms |-> l @@ [c \in extra |-> ms[j][c]]]
    IN  DataFrame(left.columns \cup right.columns,
                  ConcatAll([i \in DOMAIN left.rows |-> joined(left.rows[i])], 1))

\* DataFrame.fillna(0)
FillNaFrame(df) ==
    DataFrame(df.columns,
              [i \in DOMAIN df.rows |-> [c \in DOMAIN df.rows[i] |-> FillNa(df.rows[i][c])]])

\* what combine_data returns for given fields: an exception, the marketing
\* KPI table (no business table) or the combined table
CombineResult(bdf, mdfs) ==
    LET marketing_df  == calculate_marketing_kpis(mdfs)
        business_kpis == calculate_business_kpis(bdf)
    IN  IF ~IsDf(marketing_df) THEN marketing_df
        ELSE IF business_kpis = None THEN marketing_df
        ELSE LET daily_marketing_pivot == Pivot(GroupByDatePlatform(marketing_df))
             IN  IF ~IsDf(daily_marketing_pivot) THEN daily_marketing_pivot
                 ELSE FillNaFrame(MergeLeftOnDate(business_kpis, daily_marketing_pivot))

RECURSIVE SortedColumns(_)
\* the names of a finite set of columns as a sequence
SortedColumns(S) ==
    IF S = {} THEN <<>>
    ELSE LET c == CHOOSE x \in S : TRUE
         IN  <<c>> \o SortedColumns(S \ {c})

(***************************************************************************)
(* Summary statistics (processor.py:151-176).                              *)
(***************************************************************************)
\* col.endswith(suffix): the names of a combined table that end with
\* '_<metric>' are the pivot names '<platform>_<metric>'
EndsWith(col, suffix) == \E p \in Range(PLATFORMS) : col = p \o suffix

\* df[[columns of cols]].sum().sum(): the sum of the column sums
SumOfColumns(df, cols) ==
    LET names == SortedColumns(cols)
    IN  SeriesSum([i \in DOMAIN names |-> SeriesSum(Column(df, names[i]))])

\* f"{min:%Y-%m-%d} to {max:%Y-%m-%d}": NaT (empty column) has no strftime
\* (ValueError), and neither has an unparsed text date (AttributeError)
DateRange(df) ==
    LET dates == SortedDates(df.rows)
    IN  IF Len(dates) = 0 THEN Raised("ValueError")
        ELSE IF dates[1].k # "ts" THEN Raised("AttributeError")
        ELSE [k |-> "range", min |-> dates[1].day, max |-> dates[Len(dates)].day]

SummaryStats(df) ==
    LET total_spend == SumOfColumns(df, {c \in df.columns : EndsWith(c, "_spend")})
        total_attributed_revenue ==
            SumOfColumns(df, {c \in df.columns : EndsWith(c, "_attributed revenue")})
        total_business_revenue == SeriesSum(Column(df, "total revenue"))
        overall_roas ==
            IF GtZero(total_spend) THEN Div(total_attributed_revenue, total_spend) ELSE Num(0)
        attribution_gap ==
            IF GtZero(total_business_revenue)
            THEN Mul(Div(Sub(total_business_revenue, total_attributed_revenue),
                         total_business_revenue), Num(100))
            ELSE Num(0)
        date_range == DateRange(df)
    IN  IF date_range.k = "raised" THEN date_range
        ELSE [k |-> "dict",
              total_spend |-> total_spend,
              total_attributed_revenue |-> total_attributed_revenue,
              total_business_revenue |-> total_business_revenue,
              overall_roas |-> overall_roas,
              attribution_gap |-> attribution_gap,
              date_range |-> date_range]

EmptyDict == [k |-> "dict"]

(***************************************************************************)
(* The CSV files load_data can find.                                       *)
(***************************************************************************)
\* the calendar days of the model
Dates == {1, 2}

\* business rows: '# of orders', 'new customers', 'total revenue', 'gross profit'
BusinessSamples == << <<0, 0, 0, 0>>, <<2, 1, 5, 2>> >>

\* marketing rows: impression, clicks, spend, attributed revenue
MarketingSamples == << <<0, 0, 0, 4>>, <<3, 1, 2, 5>> >>

BusinessRow(day, v) ==
    ("date" :> DateText(day)) @@ ("# of orders" :> v[1]) @@ ("new customers" :> v[2])
    @@ ("total revenue" :> v[3]) @@ ("gross profit" :> v[4])

MarketingRow(day, v) ==
    ("date" :> DateText(day)) @@ ("impression" :> v[1]) @@ ("clicks" :> v[2])
    @@ ("spend" :> v[3]) @@ ("attributed revenue" :> v[4])

NumCells(t) == [i \in DOMAIN t |-> Num(t[i])]

BusinessFileColumns == {"date"} \cup Range(BUSINESS_COLUMNS)
MarketingFileColumns == {"date"} \cup Range(MARKETING_COLUMNS)

\* business.csv: one row per calendar date (spec.md, data model), in any
\* order; no row at all is a file with its header only
BusinessFiles ==
    LET keys == Dates \X DOMAIN BusinessSamples
        seqs == UNION {[1..n -> keys] : n \in 0..Cardinality(Dates)}
    IN  {DataFrame(BusinessFileColumns,
                   [i \in DOMAIN q |-> BusinessRow(q[i][1], NumCells(BusinessSamples[q[i][2]]))]) :
            q \in {s \in seqs : \A i, j \in DOMAIN s : i # j => s[i][1] # s[j][1]}}

KindLeq(a, b) ==
    \/ a[1] < b[1]
    \/ a[1] = b[1] /\ a[2] < b[2]
    \/ a[1] = b[1] /\ a[2] = b[2] /\ a[3] <= b[3]

\* the rows of the three platform files together: at most MaxMktRows rows,
\* each <<platform index, day, sample index>>; a file keeps its rows in
\* this order (the order of the rows of a file changes no sum or mean)
MarketingRowSets ==
    LET keys == (DOMAIN PLATFORMS) \X Dates \X (DOMAIN MarketingSamples)
        seqs == UNION {[1..n -> keys] : n \in 0..MaxMktRows}
    IN  {s \in seqs : \A i, j \in DOMAIN s : i < j => KindLeq(s[i], s[j])}

MarketingFile(q, p) ==
    LET mine == SelectSeq(q, LAMBDA x : PLATFORMS[x[1]] = p)
    IN  DataFrame(MarketingFileColumns,
                  [i \in DOMAIN mine |-> MarketingRow(mine[i][2], NumCells(MarketingSamples[mine[i][3]]))])

\* a dataset folder: file name -> table as pd.read_csv returns it
DatasetFolders ==
    {("business" :> b) @@ [p \in Range(PLATFORMS) |-> MarketingFile(q, p)] :
        b \in BusinessFiles, q \in MarketingRowSets}

(***************************************************************************)
(* DataProcessor (processor.py:21-176).                                    *)
(***************************************************************************)
\* the last call: its name, its argument (None when it takes none) and what
\* it returned or raised
Return(op, val) == [op |-> op, arg |-> None, val |-> val]

\* the application before its first script run
AppIdle ==
    /\ cache = None
    /\ pipeline_runs = 0
    /\ st_error = None
    /\ filtered_df = None
    /\ sidebar_platforms = {}
    /\ messages = <<>>
    /\ llm_service = None
    /\ gemini_calls = 0

Init ==
    /\ business_df = None
    /\ marketing_dfs = <<>>
    /\ combined_df = None
    /\ pc = "new"
    /\ ret = Return("__init__", None)
    /\ AppIdle

\* a loader that tags every table with the first platform
TagPlatform_First(df, platform) ==
    [k |-> "df",
     columns |-> df.columns \cup {"platform"},
     rows |-> [i \in DOMAIN df.rows |-> ("platform" :> "Facebook") @@ df.rows[i]]]

\* df['platform'] = platform
TagPlatform(df, platform) ==
    DataFrame(df.columns \cup {"platform"},
              [i \in DOMAIN df.rows |-> ("platform" :> platform) @@ df.rows[i]])

\* a load_data that returns the tables it has read when a later read fails
LoadFields_PartialDict(bdf, mdfs, files, failAt) ==
    LET order  == <<"business">> \o PLATFORMS
        stop   == IF failAt = "none" THEN Len(order) + 1
                  ELSE CHOOSE i \in DOMAIN order : order[i] = failAt
        read   == {order[i] : i \in 1..(stop - 1)}
        loaded == [p \in read \ {"business"} |-> TagPlatform(files[p], p)]
        b      == IF "business" \in read THEN files["business"] ELSE bdf
    IN  [business_df   |-> b,
         marketing_dfs |-> loaded @@ mdfs,
         val           |-> IF "business" \in read
                           THEN ("business" :> b) @@ loaded @@ mdfs
                           ELSE <<>>]

\* load_data on a processor with the fields bdf and mdfs: failAt names the
\* first file whose read raises ("none": no read raises); the fields
\* assigned before the exception keep their value, and the call returns {}
LoadFields(bdf, mdfs, files, failAt) ==
    LET order  == <<"business">> \o PLATFORMS
        stop   == IF failAt = "none" THEN Len(order) + 1
                  ELSE CHOOSE i \in DOMAIN order : order[i] = failAt
        read   == {order[i] : i \in 1..(stop - 1)}
        loaded == [p \in read \ {"business"} |-> TagPlatform(files[p], p)]
        b      == IF "business" \in read THEN files["business"] ELSE bdf
    IN  [business_df   |-> b,
         marketing_dfs |-> loaded @@ mdfs,
         val           |-> IF failAt = "none"
                           THEN ("business" :> b) @@ loaded @@ mdfs
                           ELSE <<>>]

load_data(files, failAt) ==
    /\ pc = "new"
    /\ \E l \in {LoadFields(business_df, marketing_dfs, files, failAt)} :
        /\ business_df' = l.business_df
        /\ marketing_dfs' = l.marketing_dfs
        /\ ret' = Return("load_data", l.val)
    /\ pc' = IF failAt = "none" THEN "loaded" ELSE "load_failed"
    /\ UNCHANGED combined_df
    /\ UNCHANGED appVars

\* pd.to_datetime on one cell that holds a date
to_datetime(cell) == Timestamp(cell.day)

\* pd.to_datetime raises ValueError on a column with text that is no date
DateRaises(df) == \E i \in DOMAIN df.rows : df.rows[i]["date"].k = "str"

\* a conversion that keeps the text it cannot parse
to_numeric_Keep(cell) == cell

\* pd.to_numeric(errors='coerce') on one cell: unparseable text becomes NaN
to_numeric(cell) == IF cell.k = "str" THEN NaN ELSE cell

clean_business_data(bdf) ==
    IF bdf = None THEN None
    ELSE DataFrame(bdf.columns,
                   [i \in DOMAIN bdf.rows |-> [bdf.rows[i] EXCEPT !["date"] = to_datetime(@)]])

convert_numeric_columns(row) ==
    [c \in DOMAIN row |-> IF c \in Range(MARKETING_COLUMNS) THEN to_numeric(row[c]) ELSE row[c]]

\* the loop of _clean_marketing_data, in the insertion order of
\* marketing_dfs: it stops at the first table whose dates do not parse
clean_marketing_data(mdfs) ==
    LET order   == SelectSeq(PLATFORMS, LAMBDA p : p \in DOMAIN mdfs)
        reached == {order[i] : i \in {j \in DOMAIN order :
                                         \A h \in 1..j : ~DateRaises(mdfs[order[h]])}}
    IN  [p \in DOMAIN mdfs |->
            IF p \in reached
            THEN DataFrame(mdfs[p].columns,
                           [i \in DOMAIN mdfs[p].rows |->
                               convert_numeric_columns(
                                   [mdfs[p].rows[i] EXCEPT !["date"] = to_datetime(@)])])
            ELSE mdfs[p]]

\* clean_data on a processor with the fields bdf and mdfs: the fields it
\* leaves, and None or the exception of the first pd.to_datetime that raises
CleanFields(bdf, mdfs) ==
    IF bdf # None /\ DateRaises(bdf)
    THEN [business_df |-> bdf, marketing_dfs |-> mdfs, val |-> Raised("ValueError")]
    ELSE [business_df   |-> clean_business_data(bdf),
          marketing_dfs |-> clean_marketing_data(mdfs),
          val           |-> IF \E p \in DOMAIN mdfs : DateRaises(mdfs[p])
                            THEN Raised("ValueError") ELSE None]

clean_data ==
    /\ pc = "loaded"
    /\ \E c \in {CleanFields(business_df, marketing_dfs)} :
        /\ business_df' = c.business_df
        /\ marketing_dfs' = c.marketing_dfs
        /\ pc' = IF c.val = None THEN "cleaned" ELSE "failed"
        /\ ret' = Return("clean_data", c.val)
    /\ UNCHANGED combined_df
    /\ UNCHANGED appVars

\* a combine_data whose KPI calculators write their columns into the
\* processor's own tables instead of into copies
combine_data_InPlace ==
    /\ \E result \in {CombineResult(business_df, marketing_dfs)} :
        /\ ret' = Return("combine_data", result)
        /\ combined_df' = IF IsDf(result) /\ business_df # None THEN result ELSE combined_df
        /\ pc' = IF IsDf(result) THEN "combined" ELSE "failed"
        /\ business_df' = calculate_business_kpis(business_df)
        /\ marketing_dfs' =
               [p \in DOMAIN marketing_dfs |-> calculate_platform_kpis(marketing_dfs[p])]
        /\ UNCHANGED appVars

combine_data ==
    /\ \E result \in {CombineResult(business_df, marketing_dfs)} :
        /\ ret' = Return("combine_data", result)
        /\ combined_df' = IF IsDf(result) /\ business_df # None THEN result ELSE combined_df
        /\ pc' = IF IsDf(result) THEN "combined" ELSE "failed"
        /\ UNCHANGED <<business_df, marketing_dfs>>
        /\ UNCHANGED appVars

get_summary_stats ==
    /\ ret' = Return("get_summary_stats",
                     IF combined_df = None THEN EmptyDict ELSE SummaryStats(combined_df))
    /\ UNCHANGED <<business_df, marketing_dfs, combined_df, pc>>
    /\ UNCHANGED appVars

(***************************************************************************)
(* Attribution chart (dashboard_components.py:100-110).                    *)
(***************************************************************************)
\* Series.replace([np.inf, -np.inf], 0) on one cell: NaN is not replaced
ReplaceInf(x) == IF IsInf(x) THEN Num(0) ELSE x

\* df[attributed_cols].sum(axis=1) for one row
RowSum(row, cols) ==
    LET names == SortedColumns(cols)
    IN  SeriesSum([i \in DOMAIN names |-> row[names[i]]])

AttributionGapPct(gap, revenue) == ReplaceInf(Mul(Div(gap, revenue), Num(100)))

\* the table as create_attribution_analysis leaves it: three columns added
AttributionAnalysis(df, selected_platforms) ==
    LET attributed_cols ==
            {PivotColumnName(p, "attributed revenue") : p \in selected_platforms} \cap df.columns
        analysed(row) ==
            LET total_attributed == RowSum(row, attributed_cols)
                attribution_gap  == Sub(row["total revenue"], total_attributed)
            IN  [total_attributed    |-> total_attributed,
                 attribution_gap     |-> attribution_gap,
                 attribution_gap_pct |-> AttributionGapPct(attribution_gap, row["total revenue"])]
                @@ row
    IN  DataFrame(df.columns \cup {"total_attributed", "attribution_gap", "attribution_gap_pct"},
                  [i \in DOMAIN df.rows |-> analysed(df.rows[i])])

\* the chart is drawn over a copy of the combined table (app.py:381, 427);
\* ret is that copy as the call leaves it
create_attribution_analysis(selected_platforms) ==
    /\ pc = "combined"
    /\ combined_df # None
    /\ ret' = [op  |-> "create_attribution_analysis",
               arg |-> selected_platforms,
               val |-> AttributionAnalysis(combined_df, selected_platforms)]
    /\ UNCHANGED <<business_df, marketing_dfs, combined_df, pc>>
    /\ UNCHANGED appVars

LoadData == \E files \in DatasetFolders : load_data(files, "none")

\* main calls combine_data after clean_data (processor.py:185-186)
CombineData == pc \in {"cleaned", "combined"} /\ combine_data

CreateAttributionAnalysis ==
    \E selected_platforms \in SUBSET Range(PLATFORMS) :
        create_attribution_analysis(selected_platforms)

Next ==
    \/ LoadData
    \/ clean_data
    \/ CombineData
    \/ get_summary_stats
    \/ CreateAttributionAnalysis

Spec == Init /\ [][Next]_vars

(***************************************************************************)
(* The KPI calculators on their own: one cleaned row, every combination of *)
(* cell values up to MaxVal and NaN (an empty or unparseable cell).        *)
(***************************************************************************)
KpiCells == {Num(i) : i \in 0..MaxVal} \cup {NaN}

KpiRows == KpiCells \X KpiCells \X KpiCells \X KpiCells

EmptyMarketingFile(p) ==
    DataFrame(MarketingFileColumns \cup {"platform"}, <<>>)

InitKpi ==
    /\ AppIdle
    /\ combined_df = None
    /\ pc = "cleaned"
    /\ ret = Return("clean_data", None)
    /\ \E v \in KpiRows :
          \/ /\ business_df = DataFrame(BusinessFileColumns,
                                        << [BusinessRow(1, v) EXCEPT !["date"] = Timestamp(1)] >>)
             /\ marketing_dfs = [p \in Range(PLATFORMS) |-> EmptyMarketingFile(p)]
          \/ /\ business_df = DataFrame(BusinessFileColumns, <<>>)
             /\ marketing_dfs =
                    [p \in Range(PLATFORMS) |->
                        IF p = PLATFORMS[1]
                        THEN DataFrame(MarketingFileColumns \cup {"platform"},
                                       << ("platform" :> p)
                                          @@ [MarketingRow(1, v) EXCEPT !["date"] = Timestamp(1)] >>)
                        ELSE EmptyMarketingFile(p)]

CalculateMarketingKpis ==
    /\ ret' = Return("calculate_marketing_kpis", calculate_marketing_kpis(marketing_dfs))
    /\ UNCHANGED <<business_df, marketing_dfs, combined_df, pc>>
    /\ UNCHANGED appVars

CalculateBusinessKpis ==
    /\ ret' = Return("calculate_business_kpis", calculate_business_kpis(business_df))
    /\ UNCHANGED <<business_df, marketing_dfs, combined_df, pc>>
    /\ UNCHANGED appVars

NextKpi == CalculateMarketingKpis \/ CalculateBusinessKpis

SpecKpi == InitKpi /\ [][NextKpi]_vars

(***************************************************************************)
(* The public methods of a DataProcessor called by any caller: a read of   *)
(* any of the four CSVs may fail, and combine_data and the KPI calculators *)
(* are called whether or not a dataset was loaded and cleaned.             *)
(***************************************************************************)
LoadDataOrFail ==
    \E files \in DatasetFolders, failAt \in {"none", "business"} \cup Range(PLATFORMS) :
        load_data(files, failAt)

\* pc = "failed": an earlier combine_data raised and the caller gave up
CombineDataAnyTime == pc # "failed" /\ combine_data

NextCalls ==
    \/ LoadDataOrFail
    \/ clean_data
    \/ CombineDataAnyTime
    \/ get_summary_stats
    \/ CalculateMarketingKpis
    \/ CalculateBusinessKpis

SpecCalls == Init /\ [][NextCalls]_vars

(***************************************************************************)
(* clean_data and combine_data on a dataset with unparseable cells: one    *)
(* business row, and two Facebook rows on its date, the first with any     *)
(* combination of numbers up to MaxVal and unparseable text.               *)
(***************************************************************************)
\* a cell of a marketing column that holds text pd.read_csv left as text
Unparseable == [k |-> "str"]

RawCells == {Num(i) : i \in 0..MaxVal} \cup {Unparseable}

RawRows == RawCells \X RawCells \X RawCells \X RawCells

InitClean ==
    /\ AppIdle
    /\ combined_df = None
    /\ pc = "loaded"
    /\ business_df = DataFrame(BusinessFileColumns,
                               << BusinessRow(1, NumCells(BusinessSamples[2])) >>)
    /\ \E v \in RawRows :
          marketing_dfs =
              [p \in Range(PLATFORMS) |->
                  TagPlatform(DataFrame(MarketingFileColumns,
                                        IF p = "Facebook"
                                        THEN << MarketingRow(1, v),
                                                MarketingRow(1, NumCells(MarketingSamples[2])) >>
                                        ELSE <<>>),
                              p)]
    /\ ret = Return("load_data", ("business" :> business_df) @@ marketing_dfs)

\* the KPI calculators, called on cleaned tables
CalculateKpisOfCleaned ==
    /\ pc \in {"cleaned", "combined"}
    /\ (CalculateMarketingKpis \/ CalculateBusinessKpis)

NextClean ==
    \/ clean_data
    \/ CombineData
    \/ CalculateKpisOfCleaned

SpecClean == InitClean /\ [][NextClean]_vars

(***************************************************************************)
(* The memoized load of the application (app.py:318-330).                  *)
(***************************************************************************)
\* df with text that is no date in the date cell of its first row
WithBadDate(df) ==
    DataFrame(df.columns,
              [i \in DOMAIN df.rows |->
                  IF i = 1 THEN [df.rows[i] EXCEPT !["date"] = Unparseable] ELSE df.rows[i]])

\* df as read from a file without the column c
WithoutColumn(df, c) ==
    DataFrame(df.columns \ {c},
              [i \in DOMAIN df.rows |-> [x \in DOMAIN df.rows[i] \ {c} |-> df.rows[i][x]]])

\* folders that can be read but not processed: a date that does not parse
\* in business.csv or in Google.csv, or a Google.csv without its spend
\* column
BrokenFolders ==
    LET base == {f \in DatasetFolders : /\ Len(f["business"].rows) = 1
                                        /\ f["Facebook"].rows # <<>>
                                        /\ f["Google"].rows # <<>>}
    IN  {[f EXCEPT !["business"] = WithBadDate(@)] : f \in base}
        \cup {[f EXCEPT !["Google"] = WithBadDate(@)] : f \in base}
        \cup {[f EXCEPT !["Google"] = WithoutColumn(@, "spend")] : f \in base}

AppFolders == DatasetFolders \cup BrokenFolders

\* the element st.error shows
ErrorBox(message) == [k |-> "st.error", message |-> message]

\* a decorator that stores nothing
cache_data_Forget(value, error) == None

\* @st.cache_data: what is stored when the body has run: the value it
\* returned and the st.error element it showed, replayed on a later call
cache_data(value, error) == [value |-> value, error |-> error]

\* one call of load_and_process_data: the body runs when nothing is cached,
\* on the files it finds on disk and with the read failure it meets
load_and_process_data ==
    /\ \/ /\ cache = None
          /\ pipeline_runs < MaxRuns
          /\ \E files \in AppFolders, failAt \in {"none", "business"} \cup Range(PLATFORMS) :
             \E l \in {LoadFields(None, <<>>, files, failAt)} :
             \E c \in {IF l.val = <<>> THEN l
                        ELSE CleanFields(l.business_df, l.marketing_dfs)} :
             \E r \in {IF l.val = <<>> THEN None
                        ELSE IF c.val # None THEN c.val
                        ELSE CombineResult(c.business_df, c.marketing_dfs)} :
             \E value \in {IF IsDf(r) THEN r ELSE None} :
             \E error \in {IF l.val = <<>> THEN ErrorBox("Failed to load data")
                            ELSE IF IsDf(r) THEN None
                            ELSE ErrorBox("Error processing data")} :
                /\ business_df' = c.business_df
                /\ marketing_dfs' = c.marketing_dfs
                /\ combined_df' = value
                /\ pc' = IF l.val = <<>> THEN "load_failed"
                         ELSE IF IsDf(r) THEN "combined" ELSE "failed"
                /\ st_error' = error
                /\ ret' = Return("load_and_process_data", value)
                /\ cache' = cache_data(value, error)
                /\ pipeline_runs' = pipeline_runs + 1
       \/ /\ cache # None
          /\ ret' = Return("load_and_process_data", cache.value)
          /\ st_error' = cache.error
          /\ UNCHANGED <<business_df, marketing_dfs, combined_df, pc, cache, pipeline_runs>>
    /\ UNCHANGED <<filtered_df, sidebar_platforms, messages, llm_service, gemini_calls>>

NextApp == load_and_process_data

SpecApp == Init /\ [][NextApp]_vars

(***************************************************************************)
(* The tabs of one script run (app.py:408-435) and the charts they draw    *)
(* (dashboard_components.py:37-110), all on main's filtered_df.            *)
(***************************************************************************)
\* the table as create_revenue_trend_chart leaves it: df['total_attributed']
\* is assigned on the table passed in
RevenueTrendTable(df, selected_platforms) ==
    LET attributed_cols ==
            {PivotColumnName(p, "attributed revenue") : p \in selected_platforms} \cap df.columns
    IN  DataFrame(df.columns \cup {"total_attributed"},
                  [i \in DOMAIN df.rows |->
                      [total_attributed |-> RowSum(df.rows[i], attributed_cols)] @@ df.rows[i]])

\* the two traces of the revenue trend figure
RevenueTrendFigure(df) ==
    [title      |-> "Revenue Trends: Business vs Attributed",
     x          |-> Column(df, "date"),
     business   |-> Column(df, "total revenue"),
     attributed |-> Column(df, "total_attributed")]

\* the bar trace of the attribution figure
AttributionFigure(df) ==
    [title |-> "Daily Attribution Gap (Unattributed Revenue %)",
     x     |-> Column(df, "date"),
     y     |-> Column(df, "attribution_gap_pct")]

\* platform_data of create_platform_comparison_chart, in the order of the
\* selection
ComparisonFigure(df, selected_platforms) ==
    LET shown == SelectSeq(PLATFORMS, LAMBDA p : /\ p \in selected_platforms
                                                 /\ PivotColumnName(p, "spend") \in df.columns)
        total(p, m) == SeriesSum(Column(df, PivotColumnName(p, m)))
        bars(p) ==
            LET spend       == total(p, "spend")
                revenue     == total(p, "attributed revenue")
                clicks      == total(p, "clicks")
                impressions == total(p, "impression")
            IN  [Platform |-> p,
                 ROAS     |-> IF GtZero(spend) THEN Div(revenue, spend) ELSE Num(0),
                 CTR      |-> IF GtZero(impressions)
                              THEN Mul(Div(clicks, impressions), Num(100)) ELSE Num(0),
                 CPC      |-> IF GtZero(clicks) THEN Div(spend, clicks) ELSE Num(0),
                 Spend    |-> spend]
    IN  IF Len(shown) = 0
        THEN [title |-> "No platform data to display for the selected period."]
        ELSE [title |-> "Platform Performance Comparison",
              platform_data |-> [i \in DOMAIN shown |-> bars(shown[i])]]

\* the marker traces of create_spend_vs_revenue_scatter: per platform the
\* (spend, revenue) points with both positive; trend tells whether a trend
\* line is fitted (the coefficients of np.polyfit are not modelled)
ScatterFigure(df, selected_platforms) ==
    LET shown == SelectSeq(PLATFORMS, LAMBDA p :
                     /\ p \in selected_platforms
                     /\ PivotColumnName(p, "spend") \in df.columns
                     /\ PivotColumnName(p, "attributed revenue") \in df.columns)
        points(p) ==
            LET masked == SelectSeq(df.rows, LAMBDA r :
                              /\ GtZero(r[PivotColumnName(p, "spend")])
                              /\ GtZero(r[PivotColumnName(p, "attributed revenue")]))
            IN  [i \in DOMAIN masked |-> <<masked[i][PivotColumnName(p, "spend")],
                                           masked[i][PivotColumnName(p, "attributed revenue")]>>]
    IN  [title  |-> "Spend vs Attributed Revenue by Platform",
         traces |-> [i \in DOMAIN shown |-> [name |-> shown[i], points |-> points(shown[i])]],
         trend  |-> \E i \in DOMAIN shown : points(shown[i]) # <<>>]

\* create_overview_tab: the revenue trend chart, then the attribution
\* analysis, both handed filtered_df itself
create_overview_tab ==
    /\ filtered_df # None
    /\ \E trended \in {RevenueTrendTable(filtered_df, sidebar_platforms)} :
       \E analysed \in {AttributionAnalysis(trended, sidebar_platforms)} :
          /\ filtered_df' = analysed
          /\ ret' = [op  |-> "create_overview_tab",
                     arg |-> sidebar_platforms,
                     val |-> <<RevenueTrendFigure(trended), AttributionFigure(analysed)>>]
    /\ UNCHANGED <<business_df, marketing_dfs, combined_df, pc, cache, pipeline_runs,
                   st_error, sidebar_platforms, messages, llm_service, gemini_calls>>

\* create_trends_tab: the platform comparison chart, then the scatter
create_trends_tab ==
    /\ filtered_df # None
    /\ ret' = [op  |-> "create_trends_tab",
               arg |-> sidebar_platforms,
               val |-> <<ComparisonFigure(filtered_df, sidebar_platforms),
                         ScatterFigure(filtered_df, sidebar_platforms)>>]
    /\ UNCHANGED <<business_df, marketing_dfs, combined_df, pc, cache, pipeline_runs,
                   st_error, filtered_df, sidebar_platforms, messages, llm_service,
                   gemini_calls>>

\* main has filtered the combined table of a dataset over its whole date
\* range and the sidebar holds any selection of platforms
InitCharts ==
    /\ business_df = None
    /\ marketing_dfs = <<>>
    /\ combined_df = None
    /\ pc = "new"
    /\ cache = None
    /\ pipeline_runs = 0
    /\ st_error = None
    /\ messages = <<>>
    /\ llm_service = None
    /\ gemini_calls = 0
    /\ \E files \in DatasetFolders :
       \E c \in {CleanFields(files["business"],
                              [p \in Range(PLATFORMS) |-> TagPlatform(files[p], p)])} :
          filtered_df = CombineResult(c.business_df, c.marketing_dfs)
    /\ sidebar_platforms \in SUBSET Range(PLATFORMS)
    /\ ret = [op |-> "main", arg |-> sidebar_platforms, val |-> None]

NextCharts == create_overview_tab \/ create_trends_tab

SpecCharts == InitCharts /\ [][NextCharts]_vars

(***************************************************************************)
(* generate_insights (app.py:455-506) on the columns it reads: a filtered  *)
(* table of no row or of one row with the total revenue and the spend and  *)
(* attributed revenue of Facebook and Google, each from 0 to MaxVal.       *)
(***************************************************************************)
\* a < b for floats (false when either is NaN)
Less(a, b) == GtZero(Sub(b, a))

\* the platforms of the selection with both columns and a positive spend,
\* each with its ROAS: the list platform_performance before it is sorted
PlatformPerformance(df, selected_platforms) ==
    LET total(p, m) == SeriesSum(Column(df, PivotColumnName(p, m)))
        listed == SelectSeq(PLATFORMS, LAMBDA p :
                      /\ p \in selected_platforms
                      /\ PivotColumnName(p, "spend") \in df.columns
                      /\ PivotColumnName(p, "attributed revenue") \in df.columns
                      /\ GtZero(total(p, "spend")))
    IN  [i \in DOMAIN listed |->
            [platform |-> listed[i],
             roas     |-> Div(total(listed[i], "attributed revenue"), total(listed[i], "spend")),
             spend    |-> total(listed[i], "spend")]]

\* platform_performance.sort(key=roas, reverse=True)[0]: the sort is
\* stable, so the first of the entries with the highest ROAS
BestPlatform(perf) ==
    perf[CHOOSE i \in DOMAIN perf :
            \A j \in DOMAIN perf : IF j < i THEN Less(perf[j].roas, perf[i].roas)
                                    ELSE ~Less(perf[i].roas, perf[j].roas)]

\* platform_performance.sort(key=roas, reverse=True)[-1]: the last of the
\* entries with the lowest ROAS
WorstPlatform(perf) ==
    perf[CHOOSE i \in DOMAIN perf :
            \A j \in DOMAIN perf : IF j > i THEN Less(perf[i].roas, perf[j].roas)
                                    ELSE ~Less(perf[j].roas, perf[i].roas)]

\* the ROAS insight with the thresholds taken inclusive
RoasInsight_Inclusive(overall_roas) ==
    IF ~Less(overall_roas, Num(3)) THEN [kind |-> "Strong ROAS"]
    ELSE IF ~Less(overall_roas, Num(2)) THEN [kind |-> "Moderate ROAS"]
    ELSE [kind |-> "Low ROAS"]

\* if overall_roas > 3 ... elif overall_roas > 2 ... else
RoasInsight(overall_roas) ==
    IF Less(Num(3), overall_roas) THEN [kind |-> "Strong ROAS"]
    ELSE IF Less(Num(2), overall_roas) THEN [kind |-> "Moderate ROAS"]
    ELSE [kind |-> "Low ROAS"]

\* if attribution_gap > 50 ... elif attribution_gap > 25 ... else
AttributionInsight(attribution_gap) ==
    IF Less(Num(50), attribution_gap) THEN [kind |-> "High Attribution Gap"]
    ELSE IF Less(Num(25), attribution_gap) THEN [kind |-> "Moderate Attribution Gap"]
    ELSE [kind |-> "Good Attribution"]

\* what generate_insights returns: the insights by their headline, the
\* platform insights with the platform and the ROAS as formatted (.2f)
GenerateInsights(df, selected_platforms) ==
    LET total_spend ==
            SumOfColumns(df, {PivotColumnName(p, "spend") : p \in selected_platforms}
                             \cap df.columns)
        total_attributed_revenue ==
            SumOfColumns(df, {PivotColumnName(p, "attributed revenue") : p \in selected_platforms}
                             \cap df.columns)
        total_business_revenue == SeriesSum(Column(df, "total revenue"))
        overall_roas ==
            IF GtZero(total_spend) THEN Div(total_attributed_revenue, total_spend) ELSE Num(0)
        attribution_gap ==
            IF GtZero(total_business_revenue)
            THEN Mul(Div(Sub(total_business_revenue, total_attributed_revenue),
                         total_business_revenue), Num(100))
            ELSE Num(0)
        perf == PlatformPerformance(df, selected_platforms)
        best == BestPlatform(perf)
        worst == WorstPlatform(perf)
        top ==
            IF Len(perf) > 0 /\ Less(Add(worst.roas, Fin(1, 2)), best.roas)
            THEN << [kind |-> "Top Performer", platform |-> best.platform,
                     roas |-> Round2(best.roas)] >>
            ELSE <<>>
        opportunity ==
            IF Len(perf) > 0 /\ Less(worst.roas, Num(2))
            THEN << [kind |-> "Optimization Opportunity", platform |-> worst.platform,
                     roas |-> Round2(worst.roas)] >>
            ELSE <<>>
    IN  <<RoasInsight(overall_roas), AttributionInsight(attribution_gap)>>
        \o top \o opportunity

generate_insights ==
    /\ filtered_df # None
    /\ ret' = [op  |-> "generate_insights",
               arg |-> sidebar_platforms,
               val |-> GenerateInsights(filtered_df, sidebar_platforms)]
    /\ UNCHANGED <<business_df, marketing_dfs, combined_df, pc, cache, pipeline_runs,
                   st_error, filtered_df, sidebar_platforms, messages, llm_service,
                   gemini_calls>>

InsightColumns ==
    {"date", "total revenue", "Facebook_spend", "Facebook_attributed revenue",
     "Google_spend", "Google_attributed revenue"}

\* the filtered tables generate_insights is applied to
InsightTables ==
    {DataFrame(InsightColumns, <<>>)}
    \cup {DataFrame(InsightColumns,
                    << [c \in InsightColumns |->
                           IF c = "date" THEN Timestamp(1)
                           ELSE IF c = "total revenue" THEN Num(v[1])
                           ELSE IF c = "Facebook_spend" THEN Num(v[2])
                           ELSE IF c = "Facebook_attributed revenue" THEN Num(v[3])
                           ELSE IF c = "Google_spend" THEN Num(v[4])
                           ELSE Num(v[5])] >>) :
              v \in (0..MaxVal) \X (0..MaxVal) \X (0..MaxVal) \X (0..MaxVal) \X (0..MaxVal)}

InitInsights ==
    /\ business_df = None
    /\ marketing_dfs = <<>>
    /\ combined_df = None
    /\ pc = "new"
    /\ cache = None
    /\ pipeline_runs = 0
    /\ st_error = None
    /\ messages = <<>>
    /\ llm_service = None
    /\ gemini_calls = 0
    /\ filtered_df \in InsightTables
    /\ sidebar_platforms \in SUBSET Range(PLATFORMS)
    /\ ret = [op |-> "main", arg |-> sidebar_platforms, val |-> None]

NextInsights == generate_insights

SpecInsights == InitInsights /\ [][NextInsights]_vars

(***************************************************************************)
(* The chat (llm.py:99-134, ai_insights.py:120-141).                       *)
(***************************************************************************)
\* most prompts submitted to the chat, and most calls of the external model
MaxPrompts == 3

\* a Python str
Str(text) == [k |-> "string", text |-> text]

\* what get_llm_service can return: the mock without an API key, else an
\* LLMService whose gemini_model is set unless its construction failed
Services ==
    {[class |-> "MockLLMService", gemini_model |-> FALSE],
     [class |-> "LLMService", gemini_model |-> FALSE],
     [class |-> "LLMService", gemini_model |-> TRUE]}

\* the values of the dictionaries handed to the chat, by their Python type:
\* the sum of a float64 column is a numpy.float64, of an int64 column a
\* numpy.int64, and a guarded ratio is a numpy.float64 or the int 0
NumpyFloat == [type |-> "numpy.float64"]
NumpyInt == [type |-> "numpy.int64"]
PyInt == [type |-> "int"]

\* filtered_summary_stats of main (app.py:393-399): of a table with float
\* columns, of a table whose total revenue column holds whole numbers, and
\* of a table without spend and revenue, whose ratios are the int 0
ChatSummaries ==
    {[total_spend |-> NumpyFloat, total_attributed_revenue |-> NumpyFloat,
      total_business_revenue |-> NumpyFloat, overall_roas |-> NumpyFloat,
      attribution_gap |-> NumpyFloat],
     [total_spend |-> NumpyFloat, total_attributed_revenue |-> NumpyFloat,
      total_business_revenue |-> NumpyInt, overall_roas |-> NumpyFloat,
      attribution_gap |-> NumpyFloat],
     [total_spend |-> NumpyFloat, total_attributed_revenue |-> NumpyFloat,
      total_business_revenue |-> NumpyFloat, overall_roas |-> PyInt,
      attribution_gap |-> PyInt]}

\* platform_performance of _analyze_platform_performance
\* (ai_insights.py:40-57): no platform selected, or Facebook with a spend
ChatPerformances ==
    {<<>>,
     [Facebook |-> [spend |-> NumpyFloat, revenue |-> NumpyFloat, roas |-> NumpyFloat,
                    ctr |-> NumpyFloat, cpc |-> NumpyFloat]]}

Prompts == {"Which platform performs best?", "How large is the attribution gap?"}

\* what generate_content does: it raises, or the text of its response
GeminiOutcomes == {Raised("Exception"), Str("The answer of the model.")}

\* json.dumps serializes float and int and their subclasses (numpy.float64
\* is one); any other number type makes it raise TypeError
JsonSerializable(v) == v.type \in {"float", "int", "numpy.float64"}

\* json.dumps(d, indent=2) of a dictionary of values
json_dumps(d) ==
    IF \E key \in DOMAIN d : ~JsonSerializable(d[key]) THEN Raised("TypeError")
    ELSE [k |-> "json", indent |-> 2, object |-> d]

\* json.dumps(d, indent=2) of a dictionary of dictionaries of values
json_dumps_nested(d) ==
    IF \E key \in DOMAIN d : json_dumps(d[key]).k = "raised" THEN Raised("TypeError")
    ELSE [k |-> "json", indent |-> 2, object |-> d]

MockMessage ==
    Str("This is a mock chat response. Please set your GOOGLE_API_KEY to use the real AI chat.")

NotConfiguredMessage ==
    Str("AI chat is not configured. Please ensure your GOOGLE_API_KEY is set correctly.")

CommunicationErrorMessage == Str("An error occurred while communicating with the AI")

\* get_chat_response of service: what it returns or raises, and the calls
\* of generate_content it makes; outcome is what such a call would do
ChatResponse(service, query, data_summary, platform_performance, outcome) ==
    IF service.class = "MockLLMService" THEN [val |-> MockMessage, calls |-> 0]
    ELSE IF ~service.gemini_model THEN [val |-> NotConfiguredMessage, calls |-> 0]
    ELSE IF json_dumps(data_summary).k = "raised" THEN [val |-> Raised("TypeError"), calls |-> 0]
    ELSE IF json_dumps_nested(platform_performance).k = "raised"
    THEN [val |-> Raised("TypeError"), calls |-> 0]
    ELSE IF outcome.k = "raised" THEN [val |-> CommunicationErrorMessage, calls |-> 1]
    ELSE [val |-> outcome, calls |-> 1]

get_chat_response(query, data_summary, platform_performance, outcome) ==
    /\ llm_service # None
    /\ \E r \in {ChatResponse(llm_service, query, data_summary, platform_performance, outcome)} :
        /\ gemini_calls + r.calls <= MaxPrompts
        /\ gemini_calls' = gemini_calls + r.calls
        /\ ret' = [op |-> "get_chat_response", arg |-> query, val |-> r.val]
    /\ UNCHANGED <<business_df, marketing_dfs, combined_df, pc, cache, pipeline_runs,
                   st_error, filtered_df, sidebar_platforms, messages, llm_service>>

\* create_ai_chat_interface in a script run with a submitted prompt: the
\* user message is appended, then get_chat_response is called, then the
\* assistant message is appended unless the call raised
create_ai_chat_interface(prompt, summary_stats, platform_performance, outcome) ==
    /\ llm_service # None
    /\ Len(messages) < 2 * MaxPrompts
    /\ \E r \in {ChatResponse(llm_service, prompt, summary_stats, platform_performance, outcome)} :
        /\ gemini_calls + r.calls <= MaxPrompts
        /\ gemini_calls' = gemini_calls + r.calls
        /\ messages' =
               IF r.val.k = "raised"
               THEN Append(messages, [role |-> "user", content |-> Str(prompt)])
               ELSE messages \o << [role |-> "user", content |-> Str(prompt)],
                                   [role |-> "assistant", content |-> r.val] >>
        /\ ret' = [op  |-> "create_ai_chat_interface",
                   arg |-> prompt,
                   val |-> IF r.val.k = "raised" THEN r.val ELSE None]
    /\ UNCHANGED <<business_df, marketing_dfs, combined_df, pc, cache, pipeline_runs,
                   st_error, filtered_df, sidebar_platforms, llm_service>>

GetChatResponse ==
    \E query \in Prompts, data_summary \in ChatSummaries,
       platform_performance \in ChatPerformances, outcome \in GeminiOutcomes :
        get_chat_response(query, data_summary, platform_performance, outcome)

ChatSubmit ==
    \E prompt \in Prompts, summary_stats \in ChatSummaries,
       platform_performance \in ChatPerformances, outcome \in GeminiOutcomes :
        create_ai_chat_interface(prompt, summary_stats, platform_performance, outcome)

\* AIInsights() has been constructed (ai_insights.py:14-15)
InitChat ==
    /\ business_df = None
    /\ marketing_dfs = <<>>
    /\ combined_df = None
    /\ pc = "new"
    /\ cache = None
    /\ pipeline_runs = 0
    /\ st_error = None
    /\ filtered_df = None
    /\ sidebar_platforms = {}
    /\ messages = <<>>
    /\ gemini_calls = 0
    /\ llm_service \in Services
    /\ ret = [op |-> "get_llm_service", arg |-> None, val |-> llm_service]

NextChat == GetChatResponse \/ ChatSubmit

SpecChat == InitChat /\ [][NextChat]_vars

(***************************************************************************)
(* main up to the call of create_dashboard_tabs (app.py:367-404) and the   *)
(* sidebar (app.py:335-365), on the table load_and_process_data has        *)
(* cached.  A date is its day number: day 1 is 1 January of a year of 365  *)
(* days that follows a year of 365 days, day 0 is the 31 December before.  *)
(***************************************************************************)
\* the first days of the calendar quarters of the two years
QuarterStarts == {-364, -274, -183, -91, 1, 91, 182, 274}

\* ts.to_period('Q').to_timestamp(): the first day of the quarter of day d
QuarterStart(d) ==
    CHOOSE q \in QuarterStarts : q <= d /\ \A r \in QuarterStarts : r <= d => r <= q

\* the dates the rows of the cached tables have: the last day of a year,
\* the last day of its first quarter and the day after, and the days
\* around the start of the 7-day window of day 120, whose 30-day window
\* starts on day 91
FilterDays == {0, 90, 91, 113, 114, 120}

\* the values of a row: total revenue, Facebook_spend,
\* Facebook_attributed revenue, Google_spend, Google_attributed revenue
MainSamples == << <<5, 2, 3, 0, 1>>, <<3, 1, 0, 2, 1>> >>

MainRow(day, v) ==
    [c \in InsightColumns |->
        IF c = "date" THEN Timestamp(day)
        ELSE IF c = "total revenue" THEN Num(v[1])
        ELSE IF c = "Facebook_spend" THEN Num(v[2])
        ELSE IF c = "Facebook_attributed revenue" THEN Num(v[3])
        ELSE IF c = "Google_spend" THEN Num(v[4])
        ELSE Num(v[5])]

\* the combined tables load_and_process_data can have returned, on the
\* columns main reads (TikTok has no row, so the pivot has no column of
\* it): one row per date of any set of dates, the empty table included
MainTables ==
    {DataFrame(InsightColumns,
               LET days == SortedDays(S)
               IN  [i \in DOMAIN days |-> MainRow(days[i], MainSamples[(i % 2) + 1])]) :
        S \in SUBSET FilterDays}

DatePresets == {"Custom", "Last 7 Days", "Last 30 Days", "Last Quarter", "All Time"}

\* what st.sidebar.date_input can return for a range: no date yet, the
\* start alone, or a start and an end not before it
CustomRanges ==
    LET days == {0, 114, 130}
    IN  {<<>>} \cup {<<a>> : a \in days}
        \cup {r \in {<<a, b>> : a \in days, b \in days} : r[1] <= r[2]}

\* the date range of a preset, or the range picked for Custom
PresetRange(df, date_preset, picked) ==
    LET dates    == SortedDates(df.rows)
        max_date == dates[Len(dates)].day
        min_date == dates[1].day
    IN  IF date_preset = "All Time" THEN <<min_date, max_date>>
        ELSE IF date_preset = "Last 7 Days" THEN <<max_date - 6, max_date>>
        ELSE IF date_preset = "Last 30 Days" THEN <<max_date - 29, max_date>>
        ELSE IF date_preset = "Last Quarter"
        THEN LET current_quarter_start == QuarterStart(max_date)
                 last_quarter_end      == current_quarter_start - 1
                 last_quarter_start    == QuarterStart(last_quarter_end)
             IN  <<last_quarter_start, last_quarter_end>>
        ELSE picked

\* create_sidebar_filters: the tuple it returns, of three elements for an
\* empty table and of two otherwise
create_sidebar_filters(df, date_preset, picked, selected_platforms) ==
    IF Len(df.rows) = 0 THEN <<None, None, {}>>
    ELSE <<PresetRange(df, date_preset, picked), selected_platforms>>

\* the filter with the end date left out
DateFilter_ExclusiveEnd(df, start_date, end_date) ==
    DataFrame(df.columns,
              SelectSeq(df.rows, LAMBDA r : r["date"].day >= start_date /\ r["date"].day < end_date))

\* combined_df[(date >= start_date) & (date <= end_date)].copy()
DateFilter(df, start_date, end_date) ==
    DataFrame(df.columns,
              SelectSeq(df.rows, LAMBDA r : r["date"].day >= start_date /\ r["date"].day <= end_date))

\* the summary with the spend taken from the revenue columns
FilteredSummary_SpendFromRevenue(df, selected_platforms) ==
    LET attr_rev_cols ==
            {c \in df.columns : \E p \in selected_platforms : c = p \o "_attributed revenue"}
        total == SumOfColumns(df, attr_rev_cols)
    IN  [total_spend |-> total,
         total_attributed_revenue |-> total,
         total_business_revenue |-> SeriesSum(Column(df, "total revenue")),
         overall_roas |-> IF GtZero(total) THEN Div(total, total) ELSE Num(0),
         attribution_gap |-> Num(0)]

\* filtered_summary_stats of main
FilteredSummary(df, selected_platforms) ==
    LET spend_cols == {c \in df.columns : \E p \in selected_platforms : c = p \o "_spend"}
        attr_rev_cols ==
            {c \in df.columns : \E p \in selected_platforms : c = p \o "_attributed revenue"}
        total_spend == SumOfColumns(df, spend_cols)
        total_attributed_revenue == SumOfColumns(df, attr_rev_cols)
        total_business_revenue == SeriesSum(Column(df, "total revenue"))
        overall_roas ==
            IF GtZero(total_spend) THEN Div(total_attributed_revenue, total_spend) ELSE Num(0)
        attribution_gap ==
            IF GtZero(total_business_revenue)
            THEN Mul(Div(Sub(total_business_revenue, total_attributed_revenue),
                         total_business_revenue), Num(100))
            ELSE Num(0)
    IN  [total_spend |-> total_spend,
         total_attributed_revenue |-> total_attributed_revenue,
         total_business_revenue |-> total_business_revenue,
         overall_roas |-> overall_roas,
         attribution_gap |-> attribution_gap]

\* st.stop() after the element shown, if any
Stopped(element) == [k |-> "st.stop", shown |-> element]

WarningBox(message) == [k |-> "st.warning", message |-> message]

\* what a script run of main comes to with the sidebar as given: it stops,
\* it raises, or it hands the filtered table, the selected platforms and
\* the summary to create_dashboard_tabs
MainRun(combined, date_preset, picked, selected_platforms) ==
    IF combined = None THEN [val |-> Stopped(None), filtered_df |-> None]
    ELSE LET returned == create_sidebar_filters(combined, date_preset, picked, selected_platforms)
         IN  IF Len(returned) # 2
             THEN [val |-> Raised("ValueError"), filtered_df |-> None]
             ELSE IF Len(returned[1]) # 2
             THEN [val |-> Stopped(WarningBox("Please select a valid date range.")),
                   filtered_df |-> None]
             ELSE LET filtered == DateFilter(combined, returned[1][1], returned[1][2])
                  IN  [val |-> [k |-> "page",
                                date_range |-> returned[1],
                                summary_stats |-> FilteredSummary(filtered, returned[2])],
                       filtered_df |-> filtered]

main ==
    /\ cache # None
    /\ \E date_preset \in DatePresets, selected_platforms \in SUBSET Range(PLATFORMS) :
       \E picked \in (IF date_preset = "Custom" THEN CustomRanges ELSE {<<>>}) :
       \E run \in {MainRun(cache.value, date_preset, picked, selected_platforms)} :
          /\ filtered_df' = run.filtered_df
          /\ sidebar_platforms' = selected_platforms
          /\ ret' = [op  |-> "main",
                     arg |-> [date_preset |-> date_preset, picked |-> picked,
                              selected_platforms |-> selected_platforms],
                     val |-> run.val]
    /\ UNCHANGED <<business_df, marketing_dfs, combined_df, pc, cache, pipeline_runs,
                   st_error, messages, llm_service, gemini_calls>>

\* load_and_process_data has run once and its result is cached: a table,
\* or None with the error it showed
InitMain ==
    /\ business_df = None
    /\ marketing_dfs = <<>>
    /\ combined_df = None
    /\ pc = "new"
    /\ pipeline_runs = 1
    /\ \E value \in MainTables \cup {None} :
          cache = cache_data(value, IF value = None THEN ErrorBox("Error processing data")
                                    ELSE None)
    /\ st_error = cache.error
    /\ filtered_df = None
    /\ sidebar_platforms = {}
    /\ messages = <<>>
    /\ llm_service = None
    /\ gemini_calls = 0
    /\ ret = Return("load_and_process_data", cache.value)

NextMain == main

SpecMain == InitMain /\ [][NextMain]_vars

(***************************************************************************)
(* display_recommendations (app.py:508-536) on the filtered tables of      *)
(* generate_insights.                                                      *)
(***************************************************************************)
\* what display_recommendations returns: the recommendations by their
\* headline, with the platform and the ROAS as formatted (.2f)
DisplayRecommendations(df, selected_platforms) ==
    LET perf  == PlatformPerformance(df, selected_platforms)
        best  == BestPlatform(perf)
        worst == WorstPlatform(perf)
        scale ==
            IF Len(perf) > 0 /\ Less(Num(3), best.roas)
            THEN << [kind |-> "Scale Up", platform |-> best.platform,
                     roas |-> Round2(best.roas)] >>
            ELSE <<>>
        review ==
            IF Len(perf) = 0 THEN <<>>
            ELSE IF Less(worst.roas, Num(2)) /\ Less(Add(worst.roas, Num(1)), best.roas)
            THEN << [kind |-> "Re-evaluate", platform |-> worst.platform,
                     roas |-> Round2(worst.roas)] >>
            ELSE << [kind |-> "Optimize", platform |-> worst.platform,
                     roas |-> Round2(worst.roas)] >>
    IN  scale \o review \o << [kind |-> "A/B Test Creatives"] >>

display_recommendations ==
    /\ filtered_df # None
    /\ ret' = [op  |-> "display_recommendations",
               arg |-> sidebar_platforms,
               val |-> DisplayRecommendations(filtered_df, sidebar_platforms)]
    /\ UNCHANGED <<business_df, marketing_dfs, combined_df, pc, cache, pipeline_runs,
                   st_error, filtered_df, sidebar_platforms, messages, llm_service,
                   gemini_calls>>

\* the filtered tables display_recommendations is applied to: no row, or
\* one row whose spends and attributed revenues give each platform a ROAS
\* below, at and above 2, 3 and the other platform's ROAS + 1
RecommendationTables ==
    LET spends   == {0, 1, 2}
        revenues == {0, 1, 2, 3, 4, 6, 7}
    IN  {DataFrame(InsightColumns, <<>>)}
        \cup {DataFrame(InsightColumns,
                        << [c \in InsightColumns |->
                               IF c = "date" THEN Timestamp(1)
                               ELSE IF c = "total revenue" THEN Num(v[2] + v[4])
                               ELSE IF c = "Facebook_spend" THEN Num(v[1])
                               ELSE IF c = "Facebook_attributed revenue" THEN Num(v[2])
                               ELSE IF c = "Google_spend" THEN Num(v[3])
                               ELSE Num(v[4])] >>) :
                  v \in spends \X revenues \X spends \X revenues}

InitRecommendations ==
    /\ business_df = None
    /\ marketing_dfs = <<>>
    /\ combined_df = None
    /\ pc = "new"
    /\ cache = None
    /\ pipeline_runs = 0
    /\ st_error = None
    /\ messages = <<>>
    /\ llm_service = None
    /\ gemini_calls = 0
    /\ filtered_df \in RecommendationTables
    /\ sidebar_platforms \in SUBSET Range(PLATFORMS)
    /\ ret = [op |-> "main", arg |-> sidebar_platforms, val |-> None]

NextRecommendations == display_recommendations

SpecRecommendations == InitRecommendations /\ [][NextRecommendations]_vars

(***************************************************************************)
(* The rule-based insights of the AI tab (llm.py:26-85,                    *)
(* ai_insights.py:17-57) on the filtered table and the summary of main.    *)
(***************************************************************************)
\* f"{x:.1f}": one decimal; nan and inf are printed as they are
Format1(x) == IF IsFinite(x) THEN Fin(RoundHalfEven(x.n * 10, x.d), 10) ELSE x

\* _analyze_platform_performance: the dictionary as the sequence of its
\* entries in insertion order, one for each selected platform that has a
\* spend column
AnalyzePlatformPerformance(df, selected_platforms) ==
    LET total(p, m) == SeriesSum(Column(df, PivotColumnName(p, m)))
        listed == SelectSeq(PLATFORMS, LAMBDA p :
                      p \in selected_platforms /\ PivotColumnName(p, "spend") \in df.columns)
        entry(p) ==
            LET spend       == total(p, "spend")
                revenue     == total(p, "attributed revenue")
                clicks      == total(p, "clicks")
                impressions == total(p, "impression")
            IN  [platform |-> p,
                 spend    |-> spend,
                 revenue  |-> revenue,
                 roas     |-> IF GtZero(spend) THEN Div(revenue, spend) ELSE Num(0),
                 ctr      |-> IF GtZero(impressions)
                              THEN Mul(Div(clicks, impressions), Num(100)) ELSE Num(0),
                 cpc      |-> IF GtZero(clicks) THEN Div(spend, clicks) ELSE Num(0)]
    IN  [i \in DOMAIN listed |-> entry(listed[i])]

\* _generate_performance_insights: the two sentences by their headline
PerformanceInsight(data_summary) ==
    [roas |-> IF Less(Fin(7, 2), data_summary.overall_roas) THEN "Excellent Marketing ROI"
              ELSE IF Less(Fin(5, 2), data_summary.overall_roas)
              THEN "Good Marketing Performance"
              ELSE "ROAS Requires Attention",
     gap  |-> IF Less(Num(50), data_summary.attribution_gap) THEN "Critical Attribution Gap"
              ELSE IF Less(Num(30), data_summary.attribution_gap)
              THEN "Moderate Attribution Gap"
              ELSE "Healthy Attribution"]

\* _generate_recommendations
AiRecommendations(data_summary, platform_performance) ==
    IF Len(platform_performance) = 0 THEN << [kind |-> "No platform data"] >>
    ELSE LET best  == BestPlatform(platform_performance)
             worst == WorstPlatform(platform_performance)
             capitalize ==
                 IF Less(Num(3), best.roas)
                 THEN << [kind |-> "Capitalize", platform |-> best.platform] >>
                 ELSE <<>>
             optimize ==
                 IF Less(worst.roas, Num(2)) /\ Len(platform_performance) > 1
                 THEN << [kind |-> "Optimize", platform |-> worst.platform] >>
                 ELSE <<>>
             tracking ==
                 IF Less(Num(40), data_summary.attribution_gap)
                 THEN << [kind |-> "Enhance Tracking Precision"] >>
                 ELSE << [kind |-> "Continuous A/B Testing"] >>
         IN  capitalize \o optimize \o tracking

\* _generate_trend_insights: the totals are numpy numbers, whose division
\* by 0 gives inf or nan and no exception
TrendInsight(data_summary) ==
    LET marketing_contribution ==
            Mul(Div(data_summary.total_attributed_revenue,
                    data_summary.total_business_revenue), Num(100))
    IN  [kind |-> "Marketing Impact", marketing_contribution |-> Format1(marketing_contribution)]

\* _generate_attribution_insights
AttributionGapInsight(data_summary) ==
    [kind |-> IF Less(data_summary.attribution_gap, Num(20)) THEN "Excellent Attribution"
              ELSE "Attribution Gap",
     attribution_gap |-> Format1(data_summary.attribution_gap)]

GetAiInsights(data_summary, platform_performance) ==
    [k               |-> "dict",
     performance     |-> PerformanceInsight(data_summary),
     recommendations |-> AiRecommendations(data_summary, platform_performance),
     trends          |-> TrendInsight(data_summary),
     attribution     |-> AttributionGapInsight(data_summary)]

\* the call of get_ai_insights in create_ai_insights_tab, with the summary
\* main computed from the filtered table
get_ai_insights ==
    /\ filtered_df # None
    /\ llm_service # None
    /\ \E data_summary \in {FilteredSummary(filtered_df, sidebar_platforms)} :
       \E platform_performance \in {AnalyzePlatformPerformance(filtered_df, sidebar_platforms)} :
          ret' = [op  |-> "get_ai_insights",
                  arg |-> [data_summary |-> data_summary,
                           platform_performance |-> platform_performance],
                  val |-> GetAiInsights(data_summary, platform_performance)]
    /\ UNCHANGED <<business_df, marketing_dfs, combined_df, pc, cache, pipeline_runs,
                   st_error, filtered_df, sidebar_platforms, messages, llm_service,
                   gemini_calls>>

\* the filtered tables of display_recommendations with the clicks and
\* impressions _analyze_platform_performance sums
AiTables ==
    LET extra == {PivotColumnName(p, m) : p \in {"Facebook", "Google"},
                                          m \in {"clicks", "impression"}}
    IN  {DataFrame(t.columns \cup extra,
                   [i \in DOMAIN t.rows |->
                       t.rows[i] @@ [c \in extra |->
                                        IF EndsWith(c, "_clicks") THEN Num(1) ELSE Num(2)]]) :
            t \in RecommendationTables}

\* AIInsights() has been constructed in create_ai_intelligence_tab with the
\* filtered table and the selection of main
InitAi ==
    /\ business_df = None
    /\ marketing_dfs = <<>>
    /\ combined_df = None
    /\ pc = "new"
    /\ cache = None
    /\ pipeline_runs = 0
    /\ st_error = None
    /\ messages = <<>>
    /\ gemini_calls = 0
    /\ llm_service \in Services
    /\ filtered_df \in AiTables
    /\ sidebar_platforms \in SUBSET Range(PLATFORMS)
    /\ ret = [op |-> "get_llm_service", arg |-> None, val |-> llm_service]

NextAi == get_ai_insights

SpecAi == InitAi /\ [][NextAi]_vars

(***************************************************************************)
(* Properties.                                                             *)
(***************************************************************************)
\* |x - num/den| <= 0.005 for a finite float x and integers num, den > 0:
\* x is num/den to 2 decimals
WithinHalfCent(x, num, den) ==
    /\ IsFinite(x)
    /\ Abs(x.n * den - num * x.d) * 200 <= x.d * den

IsZero(x) == IsFinite(x) /\ x.n = 0
IsNonZero(x) == IsFinite(x) /\ x.n # 0

Returned(op) == ret.op = op /\ IsDf(ret.val)

\* combine_data has just returned the combined table
Combined == Returned("combine_data") /\ business_df # None

\* the rows of platform p dated as the date cell d, from the platform tables
SourceRows(p, d) ==
    IF p \in DOMAIN marketing_dfs
    THEN SelectSeq(marketing_dfs[p].rows, LAMBDA r : r["date"] = d)
    ELSE <<>>

RECURSIVE IntSum(_, _, _)
\* the sum of the integer cells of column c of rows, from row i on
IntSum(rows, c, i) ==
    IF i > Len(rows) THEN 0
    ELSE (IF IsFinite(rows[i][c]) THEN rows[i][c].n ELSE 0) + IntSum(rows, c, i + 1)

\* C1: the table combine_data returns has exactly as many rows as the
\* business table, and every date of the business table is the date of
\* exactly one of its rows.
C1_OneRowPerBusinessDate ==
    (ret.op = "combine_data" /\ business_df # None) =>
        /\ IsDf(ret.val)
        /\ Len(ret.val.rows) = Len(business_df.rows)
        /\ \A i \in DOMAIN business_df.rows :
              Cardinality({j \in DOMAIN ret.val.rows :
                              ret.val.rows[j]["date"] = business_df.rows[i]["date"]}) = 1

\* C1 witness: two business dates, one of them with a row of each of two
\* platforms, have been combined.
C1_Witness ==
    /\ Combined
    /\ Len(business_df.rows) = 2
    /\ \E i \in DOMAIN business_df.rows, p, q \in Range(PLATFORMS) :
          /\ p # q
          /\ Len(SourceRows(p, business_df.rows[i]["date"])) = 1
          /\ Len(SourceRows(q, business_df.rows[i]["date"])) = 1

\* C2: in every combined record every platform of PLATFORMS has all its
\* columns '<platform>_<metric>', and they are 0 where the platform has no
\* marketing row for the record's date.
C2_PlatformColumnsZeroFilled ==
    Combined =>
        \A i \in DOMAIN ret.val.rows, p \in Range(PLATFORMS), m \in SumColumns \cup MeanColumns :
            LET row == ret.val.rows[i]
            IN  /\ PivotColumnName(p, m) \in DOMAIN row
                /\ Len(SourceRows(p, row["date"])) = 0 => IsZero(row[PivotColumnName(p, m)])

\* C3: every KPI of a marketing row is 0 when its denominator is 0, and no
\* KPI is NaN or infinite.
C3_ZeroDenominatorGivesZero ==
    Returned("calculate_marketing_kpis") =>
        \A i \in DOMAIN ret.val.rows :
            LET r == ret.val.rows[i]
            IN  /\ IsZero(r["spend"]) => IsZero(r["roas"])
                /\ IsZero(r["clicks"]) => IsZero(r["cpc"])
                /\ IsZero(r["impression"]) => IsZero(r["ctr"]) /\ IsZero(r["cpm"])
                /\ \A c \in MarketingKpiNames : IsFinite(r[c])

\* C4: for a marketing row with numeric cells, each KPI whose denominator is
\* not 0 is its reference formula to 2 decimals: ctr = clicks/impression*100,
\* cpc = spend/clicks, cpm = spend/(impression/1000), roas = attributed
\* revenue/spend.
C4_KpiFormulas ==
    Returned("calculate_marketing_kpis") =>
        \A i \in DOMAIN ret.val.rows :
            LET r    == ret.val.rows[i]
                imp  == r["impression"]
                clk  == r["clicks"]
                spd  == r["spend"]
                rev  == r["attributed revenue"]
            IN  /\ (IsNonZero(imp) /\ IsFinite(clk)) => WithinHalfCent(r["ctr"], clk.n * 100, imp.n)
                /\ (IsNonZero(clk) /\ IsFinite(spd)) => WithinHalfCent(r["cpc"], spd.n, clk.n)
                /\ (IsNonZero(imp) /\ IsFinite(spd)) => WithinHalfCent(r["cpm"], spd.n * 1000, imp.n)
                /\ (IsNonZero(spd) /\ IsFinite(rev)) => WithinHalfCent(r["roas"], rev.n, spd.n)

\* C4 witness: the KPIs of a row with no zero cell, whose ctr (clicks over
\* 3 impressions) does not come out even, have been calculated.
C4_Witness ==
    /\ Returned("calculate_marketing_kpis")
    /\ \E i \in DOMAIN ret.val.rows :
          /\ \A c \in Range(MARKETING_COLUMNS) : IsNonZero(ret.val.rows[i][c])
          /\ ret.val.rows[i]["impression"].n = 3
          /\ ret.val.rows[i]["clicks"].n \in {1, 2}

\* C5: every KPI of a business row is its formula (to 2 decimals) when the
\* denominator is not 0, and exactly 0, never NaN or infinite, when '# of
\* orders' (aov, new_customer_rate) or 'total revenue' (profit_margin) is 0.
C5_BusinessKpis ==
    Returned("calculate_business_kpis") =>
        \A i \in DOMAIN ret.val.rows :
            LET r   == ret.val.rows[i]
                ord == r["# of orders"]
                rev == r["total revenue"]
                prf == r["gross profit"]
                new == r["new customers"]
            IN  /\ (IsNonZero(ord) /\ IsFinite(rev)) => WithinHalfCent(r["aov"], rev.n, ord.n)
                /\ (IsNonZero(rev) /\ IsFinite(prf)) =>
                       WithinHalfCent(r["profit_margin"], prf.n * 100, rev.n)
                /\ (IsNonZero(ord) /\ IsFinite(new)) =>
                       WithinHalfCent(r["new_customer_rate"], new.n * 100, ord.n)
                /\ IsZero(ord) => IsZero(r["aov"]) /\ IsZero(r["new_customer_rate"])
                /\ IsZero(rev) => IsZero(r["profit_margin"])

DerivedColumns ==
    BusinessKpiNames \cup {PivotColumnName(p, m) : p \in Range(PLATFORMS), m \in MeanColumns}

\* C6: every derived value (the platforms' ctr, cpc, cpm, roas, and aov,
\* profit_margin, new_customer_rate) of every row of the combined table is
\* a finite number.
C6_DerivedValuesFinite ==
    Combined =>
        \A i \in DOMAIN ret.val.rows :
            \A c \in DerivedColumns \cap DOMAIN ret.val.rows[i] : IsFinite(ret.val.rows[i][c])

\* x is the float a/b to 2 decimals, for finite floats a and b # 0
WithinHalfCentOf(x, a, b) ==
    LET q == Div(a, b)
    IN  IsFinite(q) /\ WithinHalfCent(x, q.n, q.d)

\* C7: in every combined record, each platform KPI is its formula over the
\* record's own P_impression, P_clicks, P_spend, P_attributed revenue (to 2
\* decimals) whenever the denominator is not 0.
C7_CombinedKpisFromCombinedAttributes ==
    Combined =>
        \A i \in DOMAIN ret.val.rows, p \in Range(PLATFORMS) :
            LET row == ret.val.rows[i]
                at(m) == row[PivotColumnName(p, m)]
            IN  PivotColumnName(p, "spend") \in DOMAIN row =>
                    /\ IsNonZero(at("impression")) =>
                           WithinHalfCentOf(at("ctr"), Mul(at("clicks"), Num(100)), at("impression"))
                    /\ IsNonZero(at("clicks")) => WithinHalfCentOf(at("cpc"), at("spend"), at("clicks"))
                    /\ IsNonZero(at("impression")) =>
                           WithinHalfCentOf(at("cpm"), Mul(at("spend"), Num(1000)), at("impression"))
                    /\ IsNonZero(at("spend")) =>
                           WithinHalfCentOf(at("roas"), at("attributed revenue"), at("spend"))

\* the sums of column m over the rows of p dated d equal the combined cell
SumMatches(row, p, m) ==
    /\ PivotColumnName(p, m) \in DOMAIN row
    /\ row[PivotColumnName(p, m)] = Num(IntSum(SourceRows(p, row["date"]), m, 1))

\* C8: for every business date d and platform P, the combined P_impression,
\* P_clicks, P_spend and P_attributed revenue at d are the sums of that
\* attribute over P's marketing rows dated d, and the combined table has
\* records for the business dates only.
C8_SumsPerDateAndPlatform ==
    Combined =>
        /\ \A i \in DOMAIN ret.val.rows, p \in Range(PLATFORMS), m \in SumColumns :
              SumMatches(ret.val.rows[i], p, m)
        /\ \A i \in DOMAIN ret.val.rows :
              \E j \in DOMAIN business_df.rows :
                  ret.val.rows[i]["date"] = business_df.rows[j]["date"]

\* the part of C8 that holds: every platform column the combined table has
\* carries the sum over that platform's rows of the record's date
SumsOfPresentColumns ==
    Combined =>
        /\ \A i \in DOMAIN ret.val.rows, p \in Range(PLATFORMS), m \in SumColumns :
              PivotColumnName(p, m) \in DOMAIN ret.val.rows[i] =>
                  SumMatches(ret.val.rows[i], p, m)
        /\ \A i \in DOMAIN ret.val.rows :
              \E j \in DOMAIN business_df.rows :
                  ret.val.rows[i]["date"] = business_df.rows[j]["date"]

RECURSIVE PlatformTotal(_, _, _, _)
\* the sum, over the platforms of sel from PLATFORMS[i] on, of the integer
\* cell '<platform>_<metric>' of row (a column the row lacks adds nothing)
PlatformTotal(row, sel, metric, i) ==
    IF i > Len(PLATFORMS) THEN 0
    ELSE (IF PLATFORMS[i] \in sel /\ PivotColumnName(PLATFORMS[i], metric) \in DOMAIN row
          THEN row[PivotColumnName(PLATFORMS[i], metric)].n
          ELSE 0)
         + PlatformTotal(row, sel, metric, i + 1)

RECURSIVE TableTotal(_, _, _)
\* the sum of '<platform>_<metric>' over all platforms and the rows from i on
TableTotal(rows, metric, i) ==
    IF i > Len(rows) THEN 0
    ELSE PlatformTotal(rows[i], Range(PLATFORMS), metric, 1) + TableTotal(rows, metric, i + 1)

\* the finite float x is the fraction num/den (den # 0)
IsFraction(x, num, den) == IsFinite(x) /\ x.n * den = num * x.d

\* the summary has overall_roas and attribution_gap as the claim C9 defines
\* them from the totals of the combined table
SummaryMatches(summary, rows) ==
    LET spend    == TableTotal(rows, "spend", 1)
        revenue  == TableTotal(rows, "attributed revenue", 1)
        business == IntSum(rows, "total revenue", 1)
    IN  /\ summary.k = "dict"
        /\ IF spend > 0 THEN IsFraction(summary.overall_roas, revenue, spend)
           ELSE IsZero(summary.overall_roas)
        /\ IF business > 0
           THEN IsFraction(summary.attribution_gap, (business - revenue) * 100, business)
           ELSE IsZero(summary.attribution_gap)

\* C9: get_summary_stats over a combined table returns overall_roas = total
\* attributed revenue/total spend when total spend > 0 and 0 otherwise, and
\* attribution_gap = (total business revenue - total attributed
\* revenue)/total business revenue*100 when total business revenue > 0 and
\* 0 otherwise.
C9_SummaryStats ==
    (ret.op = "get_summary_stats" /\ combined_df # None) =>
        SummaryMatches(ret.val, combined_df.rows)

\* the part of C9 that holds: the same over a combined table with a row
SummaryStatsOfNonEmptyTable ==
    (ret.op = "get_summary_stats" /\ combined_df # None /\ Len(combined_df.rows) > 0) =>
        SummaryMatches(ret.val, combined_df.rows)

\* the daily gap percentage of one analysed row, as the claim C10 defines it
GapPctMatches(row, selected) ==
    LET revenue    == row["total revenue"].n
        attributed == PlatformTotal(row, selected, "attributed revenue", 1)
        pct        == row["attribution_gap_pct"]
    IN  IF revenue # 0 THEN IsFraction(pct, (revenue - attributed) * 100, revenue)
        ELSE IsZero(pct)

\* C10: in every row of the table of create_attribution_analysis the daily
\* attribution gap percentage is (total revenue - attributed revenue of the
\* selected platforms)/total revenue*100 when total revenue is not 0, and 0
\* when total revenue is 0, also when the attributed revenue is 0 as well.
C10_DailyAttributionGapPct ==
    Returned("create_attribution_analysis") =>
        \A i \in DOMAIN ret.val.rows : GapPctMatches(ret.val.rows[i], ret.arg)

\* the part of C10 that holds: the same for the rows whose total revenue
\* and attributed revenue are not both 0
DailyGapPctUnlessBothZero ==
    Returned("create_attribution_analysis") =>
        \A i \in DOMAIN ret.val.rows :
            (IsNonZero(ret.val.rows[i]["total revenue"])
             \/ PlatformTotal(ret.val.rows[i], ret.arg, "attributed revenue", 1) # 0) =>
                GapPctMatches(ret.val.rows[i], ret.arg)

(***************************************************************************)
(* Loader (processor.py:29-46).                                            *)
(***************************************************************************)
\* load_data has just returned a non-empty mapping
Loaded == ret.op = "load_data" /\ ret.val # <<>>

\* C11: after a successful load_data, marketing_dfs holds exactly one table
\* for each platform of PLATFORMS, every row of the table of platform p is
\* tagged platform = p, and the returned mapping has exactly the keys
\* 'business', 'Facebook', 'Google', 'TikTok'
C11_LoadedTablesTagged ==
    Loaded =>
        /\ DOMAIN marketing_dfs = {"Facebook", "Google", "TikTok"}
        /\ \A p \in DOMAIN marketing_dfs :
              /\ IsDf(marketing_dfs[p])
              /\ \A i \in DOMAIN marketing_dfs[p].rows :
                    marketing_dfs[p].rows[i]["platform"] = p
        /\ DOMAIN ret.val = {"business", "Facebook", "Google", "TikTok"}

\* a successful load of a folder where two platforms have a row each
C11_Witness ==
    /\ Loaded
    /\ Cardinality({p \in DOMAIN marketing_dfs : Len(marketing_dfs[p].rows) = 1}) = 2

(***************************************************************************)
(* Purity of the pipeline (processor.py:70-149).                           *)
(***************************************************************************)
\* C17: calculate_marketing_kpis, calculate_business_kpis and combine_data
\* leave business_df and every table of marketing_dfs as they were, and a
\* combine_data called again returns the table the call before it returned
\* (which combined_df holds)
C17_PipelineLeavesInputsUnchanged ==
    [][ret'.op \in {"calculate_marketing_kpis", "calculate_business_kpis", "combine_data"} =>
          /\ business_df' = business_df
          /\ marketing_dfs' = marketing_dfs
          /\ (ret'.op = "combine_data" /\ combined_df # None) => ret'.val = combined_df]_vars

\* combine_data has returned the combined table of a cleaned dataset with
\* business and marketing rows
C17_Witness ==
    /\ Combined
    /\ ret.val = combined_df
    /\ business_df.rows # <<>>
    /\ business_df.rows[1]["date"].k = "ts"
    /\ \E p \in DOMAIN marketing_dfs : marketing_dfs[p].rows # <<>>

(***************************************************************************)
(* combined_df and get_summary_stats (processor.py:24-27, 117-123,         *)
(* 148-154).                                                               *)
(***************************************************************************)
\* C20: get_summary_stats returns the empty mapping exactly when no
\* combine_data call has completed with a business table present;
\* combine_data without a business table returns the marketing KPI table
\* and leaves combined_df unset; combine_data with a business table sets
\* combined_df to the table it returns
C20_SummaryEmptyUntilCombined ==
    /\ [](ret.op = "get_summary_stats" =>
              (ret.val = EmptyDict <=> ~(pc = "combined" /\ business_df # None)))
    /\ [][ret'.op = "combine_data" =>
              IF business_df = None
              THEN /\ IsDf(ret'.val)
                   /\ ret'.val = calculate_marketing_kpis(marketing_dfs)
                   /\ combined_df' = None
              ELSE IsDf(ret'.val) => combined_df' = ret'.val]_vars

\* get_summary_stats answers by combined_df alone, and combined_df is set
\* exactly by a combine_data that completes with a business table present
SummaryEmptyIffNotCombined ==
    /\ [](ret.op = "get_summary_stats" =>
              (ret.val = EmptyDict <=> ~(pc = "combined" /\ business_df # None)))
    /\ [][ret'.op = "combine_data" =>
              IF business_df = None
              THEN combined_df' = None
              ELSE IsDf(ret'.val) => combined_df' = ret'.val]_vars

(***************************************************************************)
(* Unparseable marketing values (processor.py:48-68, 92-93).               *)
(***************************************************************************)
\* the marketing columns each KPI is computed from (processor.py:84-90)
KpiInputs ==
    [ctr  |-> {"clicks", "impression"},
     cpc  |-> {"spend", "clicks"},
     cpm  |-> {"spend", "impression"},
     roas |-> {"attributed revenue", "spend"}]

\* C13: clean_data returns normally and leaves NaN where a marketing column
\* held unparseable text; in the KPI table the KPIs of a row that depend on
\* a NaN cell are 0; the combined table holds no NaN, and the (date,
\* platform) sum of a column with a NaN cell counts that cell as 0
C13_UnparseableBecomesMissing ==
    /\ [][ret'.op = "clean_data" =>
              /\ ret'.val = None
              /\ \A p \in DOMAIN marketing_dfs :
                    \A i \in DOMAIN marketing_dfs[p].rows :
                        \A c \in Range(MARKETING_COLUMNS) :
                            marketing_dfs[p].rows[i][c].k = "str" =>
                                IsNaN(marketing_dfs'[p].rows[i][c])]_vars
    /\ [](Returned("calculate_marketing_kpis") =>
              \A i \in DOMAIN ret.val.rows :
                  \A kpi \in DOMAIN KpiInputs :
                      (\E c \in KpiInputs[kpi] : IsNaN(ret.val.rows[i][c])) =>
                          IsZero(ret.val.rows[i][kpi]))
    /\ [](Combined =>
              \A i \in DOMAIN ret.val.rows :
                  /\ \A c \in ret.val.columns \ {"date"} : ~IsNaN(ret.val.rows[i][c])
                  /\ \A p \in DOMAIN marketing_dfs :
                        \A m \in Range(MARKETING_COLUMNS) :
                            (\E j \in DOMAIN marketing_dfs[p].rows :
                                /\ marketing_dfs[p].rows[j]["date"] = ret.val.rows[i]["date"]
                                /\ IsNaN(marketing_dfs[p].rows[j][m])) =>
                                SumMatches(ret.val.rows[i], p, m))

\* the combined table of a dataset whose first Facebook row had unparseable
\* text in spend and a number in clicks
C13_Witness ==
    /\ Combined
    /\ IsNaN(marketing_dfs["Facebook"].rows[1]["spend"])
    /\ IsNonZero(marketing_dfs["Facebook"].rows[1]["clicks"])
    /\ IsNonZero(ret.val.rows[1]["Facebook_spend"])

(***************************************************************************)
(* load_and_process_data (app.py:318-330).                                 *)
(***************************************************************************)
\* the tables of the processor of the last run of the body
ProcessorTables ==
    (IF business_df = None THEN {} ELSE {business_df})
    \cup {marketing_dfs[p] : p \in DOMAIN marketing_dfs}

\* a read of one of the four CSVs failed: the processor lacks a table
ReadFailed == business_df = None \/ DOMAIN marketing_dfs # Range(PLATFORMS)

\* C12: when a read of one of the four CSVs failed (a table is missing),
\* load_and_process_data shows the load error and returns None, and neither
\* clean_data nor combine_data has run (no date is a timestamp, no combined
\* table); when a date did not parse or a marketing column is missing
\* (clean_data or combine_data raised), it shows an error and returns None;
\* it never returns an exception
C12_FailuresReturnNone ==
    ret.op = "load_and_process_data" =>
        /\ ret.val = None \/ IsDf(ret.val)
        /\ ReadFailed =>
              /\ ret.val = None
              /\ st_error = ErrorBox("Failed to load data")
              /\ combined_df = None
              /\ \A df \in ProcessorTables :
                    \A i \in DOMAIN df.rows : df.rows[i]["date"].k # "ts"
        /\ (~ReadFailed /\ \E df \in ProcessorTables : DateRaises(df)) =>
              ret.val = None /\ st_error = ErrorBox("Error processing data")
        /\ (~ReadFailed /\ \E p \in DOMAIN marketing_dfs :
                ~(Range(MARKETING_COLUMNS) \subseteq marketing_dfs[p].columns)) =>
              ret.val = None /\ st_error = ErrorBox("Error processing data")

\* the read of TikTok.csv failed after three tables with rows were read
C12_Witness ==
    /\ ret.op = "load_and_process_data"
    /\ ret.val = None
    /\ DOMAIN marketing_dfs = {"Facebook", "Google"}
    /\ \A df \in ProcessorTables : df.rows # <<>>

\* clean_data raised at Google.csv after it had cleaned business.csv and
\* Facebook.csv
CleanDataRaised ==
    /\ ret.op = "load_and_process_data"
    /\ ret.val = None
    /\ DOMAIN marketing_dfs = Range(PLATFORMS)
    /\ DateRaises(marketing_dfs["Google"])
    /\ marketing_dfs["Facebook"].rows[1]["date"].k = "ts"

\* combine_data raised on a Google table without its spend column
CombineDataRaised ==
    /\ ret.op = "load_and_process_data"
    /\ ret.val = None
    /\ DOMAIN marketing_dfs = Range(PLATFORMS)
    /\ "spend" \notin marketing_dfs["Google"].columns
    /\ marketing_dfs["Google"].rows[1]["date"].k = "ts"

\* C14: the body of load_and_process_data runs at most once; every call
\* returns the value the cache holds from that run, and a call that follows
\* another returns what that one returned
C14_SingleMemoizedLoad ==
    /\ [](pipeline_runs <= 1)
    /\ [](ret.op = "load_and_process_data" => cache # None /\ ret.val = cache.value)
    /\ [][(ret.op = "load_and_process_data" /\ ret'.op = "load_and_process_data") =>
              ret'.val = ret.val /\ pipeline_runs' = pipeline_runs]_vars

\* the pipeline has run once and its combined table, with rows, is cached
C14_Witness ==
    /\ pipeline_runs = 1
    /\ ret.op = "load_and_process_data"
    /\ IsDf(ret.val)
    /\ ret.val.rows # <<>>
    /\ cache # None
    /\ cache.value = ret.val

(***************************************************************************)
(* Charts (dashboard_components.py:37-110).                                *)
(***************************************************************************)
\* C15: the chart functions leave the columns and the values of the table
\* passed to them as they were: no step of a tab changes filtered_df
C15_ChartsLeaveTableUnchanged ==
    [][ret'.op \in {"create_overview_tab", "create_trends_tab"} =>
          filtered_df' = filtered_df]_vars

\* the two charts of the trends tab leave filtered_df as it was
TrendsTabLeavesTableUnchanged ==
    [][ret'.op = "create_trends_tab" => filtered_df' = filtered_df]_vars

(***************************************************************************)
(* generate_insights (app.py:455-506).                                     *)
(***************************************************************************)
\* the integer in column c of the one row of filtered_df (0 without a row)
InsightInt(c) == IF filtered_df.rows = <<>> THEN 0 ELSE filtered_df.rows[1][c].n

\* the selected platforms the filtered table has columns for
InsightPlatforms == {p \in ret.arg : PivotColumnName(p, "spend") \in filtered_df.columns}

SpendOf(p) == InsightInt(PivotColumnName(p, "spend"))
AttributedOf(p) == InsightInt(PivotColumnName(p, "attributed revenue"))

RECURSIVE SumOver(_, _)
\* the sum of f[p] over the platforms of S
SumOver(f, S) ==
    IF S = {} THEN 0
    ELSE LET p == CHOOSE x \in S : TRUE IN f[p] + SumOver(f, S \ {p})

\* C18: generate_insights returns, in this order, one ROAS insight (Strong
\* if overall ROAS > 3, Moderate if 2 < ROAS <= 3, Low otherwise), one
\* attribution insight (High if gap > 50, Moderate if 25 < gap <= 50, Good
\* otherwise), then at most a Top Performer insight, present only when the
\* best platform ROAS exceeds the worst by more than 0.5, then at most an
\* Optimization Opportunity insight, present only when the worst platform
\* ROAS is below 2.0; ROAS and gap compared as fractions of integers
C18_InsightsByThreshold ==
    ret.op = "generate_insights" =>
        LET S == SumOver([p \in InsightPlatforms |-> SpendOf(p)], InsightPlatforms)
            A == SumOver([p \in InsightPlatforms |-> AttributedOf(p)], InsightPlatforms)
            R == InsightInt("total revenue")
            spending == {p \in InsightPlatforms : SpendOf(p) > 0}
            best  == {b \in spending : \A q \in spending :
                         AttributedOf(b) * SpendOf(q) >= AttributedOf(q) * SpendOf(b)}
            worst == {w \in spending : \A q \in spending :
                         AttributedOf(w) * SpendOf(q) <= AttributedOf(q) * SpendOf(w)}
            kinds == [i \in DOMAIN ret.val |-> ret.val[i].kind]
            tail  == SubSeq(kinds, 3, Len(kinds))
        IN  /\ Len(kinds) >= 2
            /\ kinds[1] = IF S > 0 /\ A > 3 * S THEN "Strong ROAS"
                          ELSE IF S > 0 /\ A > 2 * S THEN "Moderate ROAS"
                          ELSE "Low ROAS"
            /\ kinds[2] = IF R > 0 /\ 100 * (R - A) > 50 * R THEN "High Attribution Gap"
                          ELSE IF R > 0 /\ 100 * (R - A) > 25 * R
                          THEN "Moderate Attribution Gap"
                          ELSE "Good Attribution"
            /\ tail \in {<<>>, <<"Top Performer">>, <<"Optimization Opportunity">>,
                          <<"Top Performer", "Optimization Opportunity">>}
            /\ (\E i \in DOMAIN tail : tail[i] = "Top Performer") =>
                  \E b \in best, w \in worst :
                      2 * AttributedOf(b) * SpendOf(w)
                          > 2 * AttributedOf(w) * SpendOf(b) + SpendOf(b) * SpendOf(w)
            /\ (\E i \in DOMAIN tail : tail[i] = "Optimization Opportunity") =>
                  \E w \in worst : AttributedOf(w) < 2 * SpendOf(w)

\* four insights: a low ROAS, a moderate attribution gap, a top performer
\* and an optimization opportunity
C18_Witness ==
    /\ ret.op = "generate_insights"
    /\ Len(ret.val) = 4
    /\ ret.val[1].kind = "Low ROAS"
    /\ ret.val[2].kind = "Moderate Attribution Gap"
    /\ ret.val[3].kind = "Top Performer"
    /\ ret.val[4].kind = "Optimization Opportunity"

\* an overall ROAS of exactly 3 gives the Moderate insight
RoasOfThreeIsModerate ==
    /\ ret.op = "generate_insights"
    /\ ret.arg = {"Facebook"}
    /\ InsightInt("Facebook_spend") = 1
    /\ InsightInt("Facebook_attributed revenue") = 3
    /\ ret.val[1].kind = "Moderate ROAS"

(***************************************************************************)
(* Chat (llm.py:99-134, ai_insights.py:120-141).                           *)
(***************************************************************************)
\* C16: a get_chat_response makes at most one call of the external model;
\* with the mock service or without a configured model it makes none and
\* returns its fixed message; and it returns a string, never an exception
C16_ChatResponseIsOnePassThrough ==
    [][ret'.op = "get_chat_response" =>
          /\ gemini_calls' \in {gemini_calls, gemini_calls + 1}
          /\ llm_service.class = "MockLLMService" =>
                gemini_calls' = gemini_calls /\ ret'.val = MockMessage
          /\ (llm_service.class = "LLMService" /\ ~llm_service.gemini_model) =>
                gemini_calls' = gemini_calls /\ ret'.val = NotConfiguredMessage
          /\ ret'.val.k = "string"]_vars

\* what holds of get_chat_response also when the summary cannot be
\* serialized: at most one call, none without a configured model
ChatResponseCallsAtMostOnce ==
    [][ret'.op = "get_chat_response" =>
          /\ gemini_calls' \in {gemini_calls, gemini_calls + 1}
          /\ llm_service.class = "MockLLMService" =>
                gemini_calls' = gemini_calls /\ ret'.val = MockMessage
          /\ (llm_service.class = "LLMService" /\ ~llm_service.gemini_model) =>
                gemini_calls' = gemini_calls /\ ret'.val = NotConfiguredMessage]_vars

\* C19: the message history has even length and alternates user,
\* assistant, starting with user; a submission appends the prompt and one
\* assistant response and leaves the earlier messages as they were
C19_HistoryAlternates ==
    /\ [](/\ Len(messages) % 2 = 0
          /\ \A i \in DOMAIN messages :
                messages[i].role = IF i % 2 = 1 THEN "user" ELSE "assistant")
    /\ [][ret'.op = "create_ai_chat_interface" =>
              /\ Len(messages') = Len(messages) + 2
              /\ SubSeq(messages', 1, Len(messages)) = messages
              /\ messages'[Len(messages) + 1] = [role |-> "user", content |-> Str(ret'.arg)]
              /\ messages'[Len(messages) + 2].role = "assistant"]_vars

\* the history alternates for the mock service and for a service without a
\* configured model, whose get_chat_response cannot raise
HistoryAlternatesWithoutModel ==
    [](~llm_service.gemini_model =>
          /\ Len(messages) % 2 = 0
          /\ \A i \in DOMAIN messages :
                messages[i].role = IF i % 2 = 1 THEN "user" ELSE "assistant")

(***************************************************************************)
(* main and the sidebar (app.py:335-404).                                  *)
(***************************************************************************)
\* the table main got from load_and_process_data
MainTable == cache.value

MainDays == {MainTable.rows[i]["date"].day : i \in DOMAIN MainTable.rows}

\* C21: with any combined table main unpacks what create_sidebar_filters
\* returns without an exception, and with an empty table it shows the
\* 'Please select a valid date range.' warning and stops
C21_SidebarPairUnpacks ==
    (ret.op = "main" /\ MainTable # None) =>
        /\ ret.val.k # "raised"
        /\ Len(MainTable.rows) = 0 =>
              ret.val = Stopped(WarningBox("Please select a valid date range."))

\* with a table that has a row main unpacks the pair and stops with the
\* warning exactly when the range picked has not two dates
NonEmptyTableUnpacks ==
    (ret.op = "main" /\ MainTable # None /\ Len(MainTable.rows) > 0) =>
        /\ ret.val.k # "raised"
        /\ ret.val.k = "st.stop" <=>
              (ret.arg.date_preset = "Custom" /\ Len(ret.arg.picked) # 2)

\* C22: the filtered table holds exactly the rows of the combined table
\* whose date d has start <= d <= end; All Time is (min date, max date),
\* Last 7 Days and Last 30 Days are the windows of 7 and 30 days that end
\* on max date, Last Quarter is the whole calendar quarter before the
\* quarter of max date, and every preset has start <= end
C22_DateFilterAndPresets ==
    (ret.op = "main" /\ ret.val.k = "page") =>
        LET start_date == ret.val.date_range[1]
            end_date   == ret.val.date_range[2]
            max_date   == CHOOSE d \in MainDays : \A e \in MainDays : e <= d
            min_date   == CHOOSE d \in MainDays : \A e \in MainDays : d <= e
            preset     == ret.arg.date_preset
        IN  /\ Range(filtered_df.rows)
                 = {r \in Range(MainTable.rows) :
                       start_date <= r["date"].day /\ r["date"].day <= end_date}
            /\ Len(filtered_df.rows) = Cardinality(Range(filtered_df.rows))
            /\ preset = "All Time" => start_date = min_date /\ end_date = max_date
            /\ preset = "Last 7 Days" => end_date = max_date /\ end_date - start_date + 1 = 7
            /\ preset = "Last 30 Days" => end_date = max_date /\ end_date - start_date + 1 = 30
            /\ preset = "Last Quarter" =>
                  /\ start_date \in QuarterStarts
                  /\ end_date + 1 \in QuarterStarts
                  /\ \A q \in QuarterStarts : ~(start_date < q /\ q <= end_date)
                  /\ end_date + 1 <= max_date
                  /\ \A q \in QuarterStarts : ~(end_date + 1 < q /\ q <= max_date)
            /\ preset # "Custom" => start_date <= end_date

\* Last Quarter has kept some rows of the table and dropped others
C22_Witness ==
    /\ ret.op = "main"
    /\ ret.val.k = "page"
    /\ ret.arg.date_preset = "Last Quarter"
    /\ Len(filtered_df.rows) > 0
    /\ Len(filtered_df.rows) < Len(MainTable.rows)
    /\ \E i \in DOMAIN filtered_df.rows : filtered_df.rows[i]["date"].day = ret.val.date_range[2]

\* C23: when the date range covers every row and all three platforms are
\* selected, the five values of the filtered summary of main are the values
\* get_summary_stats returns for the combined table
C23_FilteredSummaryEqualsSummaryStats ==
    (/\ ret.op = "main"
     /\ ret.val.k = "page"
     /\ ret.arg.selected_platforms = Range(PLATFORMS)
     /\ \A d \in MainDays : ret.val.date_range[1] <= d /\ d <= ret.val.date_range[2]) =>
        LET summary == SummaryStats(MainTable)
            mine    == ret.val.summary_stats
        IN  /\ summary.k = "dict"
            /\ mine.total_spend = summary.total_spend
            /\ mine.total_attributed_revenue = summary.total_attributed_revenue
            /\ mine.total_business_revenue = summary.total_business_revenue
            /\ mine.overall_roas = summary.overall_roas
            /\ mine.attribution_gap = summary.attribution_gap

\* a custom range wider than the dates of a table of three rows, all
\* platforms selected, with a spend and a gap to compare
C23_Witness ==
    /\ ret.op = "main"
    /\ ret.val.k = "page"
    /\ ret.arg.date_preset = "Custom"
    /\ ret.arg.selected_platforms = Range(PLATFORMS)
    /\ Len(MainTable.rows) = 3
    /\ \A d \in MainDays : ret.val.date_range[1] < d /\ d < ret.val.date_range[2]
    /\ GtZero(ret.val.summary_stats.total_spend)
    /\ GtZero(ret.val.summary_stats.attribution_gap)

(***************************************************************************)
(* display_recommendations (app.py:508-536).                               *)
(***************************************************************************)
\* the recommendations of the list recs that review a platform
Reviews(recs) == {i \in DOMAIN recs : recs[i].kind \in {"Re-evaluate", "Optimize"}}

\* C24: display_recommendations returns a list that ends with the 'A/B
\* Test Creatives' recommendation; when a selected platform has a positive
\* spend the list holds exactly one of 'Re-evaluate' and 'Optimize'; and no
\* platform is recommended both for scaling up and for optimizing or
\* re-evaluating
C24_Recommendations ==
    ret.op = "display_recommendations" =>
        /\ Len(ret.val) > 0
        /\ ret.val[Len(ret.val)].kind = "A/B Test Creatives"
        /\ (\E p \in InsightPlatforms : SpendOf(p) > 0) => Cardinality(Reviews(ret.val)) = 1
        /\ \A i \in DOMAIN ret.val : \A j \in Reviews(ret.val) :
              ret.val[i].kind = "Scale Up" => ret.val[i].platform # ret.val[j].platform

\* the parts of C24 that hold: the last recommendation, and exactly one
\* review, of the platform of the lowest ROAS, when a platform has a spend
RecommendationsEndWithTesting ==
    ret.op = "display_recommendations" =>
        /\ Len(ret.val) > 0
        /\ ret.val[Len(ret.val)].kind = "A/B Test Creatives"
        /\ (\E p \in InsightPlatforms : SpendOf(p) > 0) =>
              /\ Cardinality(Reviews(ret.val)) = 1
              /\ \A j \in Reviews(ret.val) : \A p \in InsightPlatforms :
                    SpendOf(p) > 0 =>
                       AttributedOf(ret.val[j].platform) * SpendOf(p)
                          <= AttributedOf(p) * SpendOf(ret.val[j].platform)
        /\ (~\E p \in InsightPlatforms : SpendOf(p) > 0) => Len(ret.val) = 1

\* two platforms with a spend: scaling up one and reviewing the other
TwoPlatformsScaledAndReviewed ==
    /\ ret.op = "display_recommendations"
    /\ Len(ret.val) = 3
    /\ ret.val[1].platform # ret.val[2].platform

(***************************************************************************)
(* get_ai_insights (llm.py:26-85).                                         *)
(***************************************************************************)
\* C25: get_ai_insights returns, without an exception, the four sections
\* performance, recommendations, trends and attribution, with at least one
\* recommendation, and the marketing contribution of the trend insight is
\* a finite number, also when the total business revenue is 0 and when no
\* platform is in the mapping
C25_AiInsightsTotal ==
    ret.op = "get_ai_insights" =>
        /\ ret.val.k = "dict"
        /\ {"performance", "recommendations", "trends", "attribution"} \subseteq DOMAIN ret.val
        /\ Len(ret.val.recommendations) > 0
        /\ IsFinite(ret.val.trends.marketing_contribution)

\* the parts of C25 that hold: the four sections and a recommendation in
\* every case, and a finite contribution when there is business revenue
AiInsightsOfPositiveRevenue ==
    ret.op = "get_ai_insights" =>
        /\ ret.val.k = "dict"
        /\ {"performance", "recommendations", "trends", "attribution"} \subseteq DOMAIN ret.val
        /\ Len(ret.val.recommendations) > 0
        /\ GtZero(ret.arg.data_summary.total_business_revenue) =>
              IsFinite(ret.val.trends.marketing_contribution)

\* no platform in the mapping: the one recommendation that says so
NoPlatformData ==
    /\ ret.op = "get_ai_insights"
    /\ Len(ret.arg.platform_performance) = 0
    /\ ret.val.recommendations = << [kind |-> "No platform data"] >>

====
